---- MODULE Spec2Model ----
(***************************************************************************)
(* Model of the rule-based e-mail classification engine of                 *)
(* ai-workflow-agent (src/src/main_enhanced.py, AIEmailProcessor).         *)
(*                                                                         *)
(* Texts are TLA+ strings, handled as character sequences (Len, SubSeq,    *)
(* \o), so that keyword containment, lower-casing, sentence splitting and  *)
(* title-casing are computed character by character as Python does.        *)
(***************************************************************************)
EXTENDS Integers, Sequences, FiniteSets, TLC

VARIABLES
    msg,        \* the request body: [sender, subject, content]
    now,        \* the wall clock read by datetime.now(), in minutes
    results,    \* the dictionaries returned so far, in call order
    ollama_results, \* the dictionaries OllamaEmailProcessor returned so far
    use_ollama,     \* OllamaEmailProcessor.use_ollama, set by the constructor
    llm_results,    \* calls of the classifiers that consult a language model
    rate_now,       \* datetime.utcnow() of the production service, in hours
    usage,          \* the UsageStats rows of the organization: action -> timestamp -> count
    requests,       \* POST /api/v1/emails/process calls made so far
    tasks_enqueued, \* process_email_task.delay calls made so far
    last_response,  \* the HTTP response of the latest call
    frames,         \* the locals of each caller's process_email_with_rules call
    processed_emails, \* the module-level list of main_enhanced.py
    sock,           \* each websocket: handler position, client side, messages in flight
    active_connections, \* ConnectionManager.active_connections: org_id -> set of websockets
    connection_info,    \* ConnectionManager.connection_info: websocket -> metadata
    gauge,          \* the active_connections metric
    broadcasts,     \* send_email_update calls made so far
    celery_tasks, \* each process_email_task: status, retries and what its latest run met
    email_task_rows, \* the committed email_tasks rows, counted per task
    webhooks, \* the email.processed notifications sent, counted per task
    ws_now, \* datetime.utcnow() of the websocket manager, in seconds
    last_ping, \* connection_info[websocket]['last_ping']
    set_owner, \* the identity of each organization's set object: the websocket whose connect created it
    next_check, \* when check_connections_health wakes up next
    bcast, \* the frame of the broadcast_to_org call in progress
    api_now, \* datetime.utcnow() of the rate limiter, in minutes
    api_rows, \* the committed UsageStats rows of the organization with action 'api_call', counted by timestamp
    api_frames, \* each check_rate_limit call in progress: its position, its local now, its verdict
    key_now, \* datetime.utcnow() of validate_api_key, in minutes
    organizations, \* the organizations table: api_key -> row
    tenant_cache, \* TenantManager.tenant_cache: api_key -> cached organization and expiry
    validated, \* the latest validate_api_key call: its key, what it returned, what the database held
    gmail_unread, \* the messages Gmail holds as unread
    marked_as_read, \* the messages mark_as_read has taken the UNREAD label from
    email_tasks, \* the committed rows of email_tasks: email_id -> row
    agent_seen, \* the messages passed to EmailProcessingAgent.process_email so far
    passed_again, \* the messages passed to the agent while their row was committed as processed
    proc, \* the process_emails run in progress: its position and the fetched emails still to do
    runs \* process_emails runs begun so far

emailVars == <<msg, now, results, ollama_results, use_ollama, llm_results>>
rateVars == <<rate_now, usage, requests, tasks_enqueued, last_response>>
concVars == <<frames, processed_emails>>
wsVars == <<sock, active_connections, connection_info, gauge, broadcasts>>
taskVars == <<celery_tasks, email_task_rows, webhooks>>
mgrVars == <<ws_now, last_ping, set_owner, next_check, bcast>>
apiVars == <<api_now, api_rows, api_frames>>
keyVars == <<key_now, organizations, tenant_cache, validated>>
procVars == <<gmail_unread, marked_as_read, email_tasks, agent_seen, passed_again, proc, runs>>
vars == <<emailVars, rateVars, concVars, wsVars, taskVars, mgrVars, apiVars, keyVars, procVars>>

\* everything but the variables of the classifiers
notEmail == <<rateVars, concVars, wsVars, taskVars, mgrVars, apiVars, keyVars, procVars>>
\* everything but the variables of the rate limiter
notRate == <<emailVars, concVars, wsVars, taskVars, mgrVars, apiVars, keyVars, procVars>>
\* everything but the variables of the concurrent callers
notConc == <<emailVars, rateVars, wsVars, taskVars, mgrVars, apiVars, keyVars, procVars>>
\* everything but the variables of the websocket manager
notWs == <<emailVars, rateVars, concVars, taskVars, mgrVars, apiVars, keyVars, procVars>>
\* everything but the variables of the background worker
notTask == <<emailVars, rateVars, concVars, wsVars, mgrVars, apiVars, keyVars, procVars>>
\* everything but the clock and the coroutines of the websocket manager
notMgr == <<emailVars, rateVars, concVars, wsVars, taskVars, apiVars, keyVars, procVars>>
\* everything but the variables of the 'api_call' rate limit
notApi == <<emailVars, rateVars, concVars, wsVars, taskVars, mgrVars, keyVars, procVars>>
\* everything but the variables of the API key validation
notKey == <<emailVars, rateVars, concVars, wsVars, taskVars, mgrVars, apiVars, procVars>>
\* everything but the variables of the task processor
notProc == <<emailVars, rateVars, concVars, wsVars, taskVars, mgrVars, apiVars, keyVars>>


MaxRuns == 2       \* process_emails runs per behaviour

\* the messages of the mailbox
EmailIds == {"m1", "m2", "m3"}

\* no row in email_tasks for that email_id
NoEmailTask == [present |-> FALSE, processed |-> FALSE]

\* every message is unread, the table is empty, no run has begun
ProcInit ==
    /\ gmail_unread = EmailIds
    /\ marked_as_read = {}
    /\ email_tasks = [e \in EmailIds |-> NoEmailTask]
    /\ agent_seen = {}
    /\ passed_again = {}
    /\ proc = [pc |-> "idle", emails |-> {}, failed |-> FALSE]
    /\ runs = 0



MaxKeyTime == 6    \* key_now runs over 0..MaxKeyTime

\* src/src/core/tenant_manager.py line 91: a cached organization expires
\* after 5 minutes
cache_minutes == 5

\* the API keys presented: those of two organizations and one of nobody
ApiKeys == {"wfa_1", "wfa_2", "wfa_x"}
OrgKeys == {"wfa_1", "wfa_2"}

\* a key that is not in tenant_cache
NotCached == [present |-> FALSE, organization |-> "None", expires |-> 0]

\* two active organizations, an empty cache, no call made
KeyInit ==
    /\ key_now = 0
    /\ organizations = [k \in OrgKeys |-> [name |-> "org of " \o k, is_active |-> TRUE]]
    /\ tenant_cache = [k \in ApiKeys |-> NotCached]
    /\ validated = [api_key |-> "", returned |-> "None", active_in_db |-> FALSE]





NumTasks == 2      \* process_email_task tasks in the queue
TaskIds == 1..NumTasks

\* the tasks are queued and nothing has run
TaskInit ==
    /\ celery_tasks = [t \in TaskIds |->
                         [status |-> "queued", retries |-> 0, agent |-> "none",
                          db_ok |-> TRUE, hook_ok |-> TRUE]]
    /\ email_task_rows = [t \in TaskIds |-> 0]
    /\ webhooks = [t \in TaskIds |-> 0]


MaxClientMsgs == 2 \* messages one client sends on its websocket
MaxBroadcasts == 1 \* send_email_update calls per behaviour

\* the websockets of the model and the organization each connects for
Sockets == {"w1", "w2"}
Orgs == {"test-org"}
OrgOf == [w \in Sockets |-> "test-org"]

\* a key that is not in the dictionary
NoMembers == [present |-> FALSE, members |-> {}]
NoInfo == [present |-> FALSE, org_id |-> "", pinged |-> FALSE]

\* no client has been accepted yet and the registries are empty
WsInit ==
    /\ sock = [w \in Sockets |->
                 [state |-> "connecting", client_open |-> TRUE, inbox |-> <<>>,
                  sent |-> <<>>, client_sent |-> 0, pings_sent |-> 0]]
    /\ active_connections = [o \in Orgs |-> NoMembers]
    /\ connection_info = [w \in Sockets |-> NoInfo]
    /\ gauge = 0
    /\ broadcasts = 0

MaxMgrTicks == 3   \* health-check periods the manager's clock runs over

\* connection_manager.py line 165: a connection is stale after 60 seconds
stale_after == 60
\* connection_manager.py line 173: the health check sleeps 30 seconds
health_check_period == 30

\* the organizations websockets connect for in the manager's model
MgrOrgs == {"org-a", "org-b"}

\* no broadcast_to_org call is in progress
IdleBroadcast ==
    [pc |-> "idle", org_id |-> "", owner |-> "", size0 |-> 0, snapshot |-> {},
     visited |-> {}, current |-> "", disconnected |-> {}]

\* the manager's clock is at 0, the health check is due, no broadcast runs
MgrInit ==
    /\ ws_now = 0
    /\ last_ping = [w \in Sockets |-> 0]
    /\ set_owner = [o \in MgrOrgs |-> ""]
    /\ next_check = 0
    /\ bcast = IdleBroadcast

MaxApiTime == 1    \* api_now runs over 0..MaxApiTime
MaxApiCalls == 62  \* calls check_rate_limit('api_call') admits or is about to admit per behaviour

\* the threads or worker processes that call check_rate_limit on one database
ApiWorkers == {"worker-1", "worker-2"}

\* src/src/core/tenant_manager.py line 19: the starter plan
api_calls_per_minute == 60

\* a worker that is not inside check_rate_limit; it keeps the verdict of its
\* latest call
IdleApiCall == [pc |-> "idle", now |-> 0, allowed |-> TRUE, message |-> ""]

\* no 'api_call' row in usage_stats, no call in progress
ApiInit ==
    /\ api_now = 0
    /\ api_rows = [t \in 0..MaxApiTime |-> 0]
    /\ api_frames = [c \in ApiWorkers |-> IdleApiCall]

NumCallers == 2    \* concurrent callers of POST /api/test-email
Callers == 1..NumCallers

NoCounts == [crisis |-> 0, sales |-> 0, support |-> 0, pricing |-> 0, complaint |-> 0]

\* a caller that has not called yet
IdleFrame ==
    [pc |-> "idle", email |-> [sender |-> "", subject |-> "", content |-> ""],
     content_lower |-> "", subject_lower |-> "", counts |-> NoCounts,
     intent |-> "", priority |-> "", sentiment |-> "", requires_human |-> FALSE,
     overlapped |-> FALSE, result |-> <<>>]

ConcInit ==
    /\ frames = [c \in Callers |-> IdleFrame]
    /\ processed_emails = <<>>

MaxRateTime == 1   \* rate_now runs over 0..MaxRateTime
MaxRequests == 102 \* calls of POST /api/v1/emails/process per behaviour

\* src/src/core/tenant_manager.py line 19: the starter plan
emails_per_hour == 100

UsageActions == {"email_processing", "email_processed", "api_call"}

\* an empty usage_stats table, no request made yet
RateInit ==
    /\ rate_now = 0
    /\ usage = [a \in UsageActions |-> [t \in 0..(MaxRateTime + 1) |-> 0]]
    /\ requests = 0
    /\ tasks_enqueued = 0
    /\ last_response = [status_code |-> 0, error |-> ""]


(***************************************************************************)
(* Bounds of the model.                                                    *)
(***************************************************************************)
MaxTime == 1     \* the clock runs over 0..MaxTime
MaxCalls == 2    \* calls of process_email_with_rules per behaviour
MaxLLMCalls == 1 \* calls of a classifier that consults a language model

(***************************************************************************)
(* Python string primitives.                                               *)
(***************************************************************************)
UpperLetters == "ABCDEFGHIJKLMNOPQRSTUVWXYZ"
LowerLetters == "abcdefghijklmnopqrstuvwxyz"

CharAt(s, i) == SubSeq(s, i, i)

UpperSet == {CharAt(UpperLetters, i) : i \in 1..26}
LowerSet == {CharAt(LowerLetters, i) : i \in 1..26}

ToLower == [c \in UpperSet |->
              CharAt(LowerLetters, CHOOSE i \in 1..26 : CharAt(UpperLetters, i) = c)]
ToUpper == [c \in LowerSet |->
              CharAt(UpperLetters, CHOOSE i \in 1..26 : CharAt(LowerLetters, i) = c)]

LowerChar(c) == IF c \in UpperSet THEN ToLower[c] ELSE c
UpperChar(c) == IF c \in LowerSet THEN ToUpper[c] ELSE c
IsCased(c) == c \in UpperSet \/ c \in LowerSet

RECURSIVE ConcatRange(_, _, _)
\* ''.join(f[lo..hi]), by halves
ConcatRange(f, lo, hi) ==
    IF lo > hi THEN ""
    ELSE IF lo = hi THEN f[lo]
    ELSE LET mid == (lo + hi) \div 2
         IN  ConcatRange(f, lo, mid) \o ConcatRange(f, mid + 1, hi)

\* str.lower()
StrLower(s) == ConcatRange([i \in 1..Len(s) |-> LowerChar(CharAt(s, i))], 1, Len(s))

\* kw in text
Contains(kw, text) ==
    \E i \in 1..(Len(text) - Len(kw) + 1) : SubSeq(text, i, i + Len(kw) - 1) = kw

\* any(kw in text for kw in kws)
AnyIn(kws, text) == \E k \in 1..Len(kws) : Contains(kws[k], text)

\* sum(1 for kw in kws if kw in text)
CountIn(kws, text) == Cardinality({k \in 1..Len(kws) : Contains(kws[k], text)})

\* str.count(c) for a one-character c
CountChar(c, s) == Cardinality({i \in 1..Len(s) : CharAt(s, i) = c})

\* str.isupper(): at least one cased character and no lower-case one
IsUpper(w) ==
    /\ \E i \in 1..Len(w) : CharAt(w, i) \in UpperSet
    /\ \A i \in 1..Len(w) : CharAt(w, i) \notin LowerSet

\* the pieces of s between the characters of the set seps, empty pieces kept
SplitOn(s, seps) ==
    LET cuts == {i \in 1..Len(s) : CharAt(s, i) \in seps} \cup {0, Len(s) + 1}
        \* the k-th cut, counting from 0
        Cut(k) == CHOOSE p \in cuts : Cardinality({q \in cuts : q < p}) = k
    IN  [k \in 1..(Cardinality(cuts) - 1) |-> SubSeq(s, Cut(k - 1) + 1, Cut(k) - 1)]

\* str.split(): split on whitespace, no empty words
Words(s) == SelectSeq(SplitOn(s, {" "}), LAMBDA w : w # "")

\* str.strip()
Strip(s) ==
    LET inked == {i \in 1..Len(s) : CharAt(s, i) # " "}
    IN  IF inked = {} THEN ""
        ELSE SubSeq(s, CHOOSE i \in inked : \A j \in inked : i <= j,
                       CHOOSE i \in inked : \A j \in inked : i >= j)

\* a maximal run of characters of seps reduced to its first character
SquashSeps(s, seps) ==
    ConcatRange([i \in 1..Len(s) |->
                    IF CharAt(s, i) \in seps /\ i > 1 /\ CharAt(s, i - 1) \in seps
                    THEN "" ELSE CharAt(s, i)], 1, Len(s))

SentenceDelims == {".", "!", "?"}
\* re.split(r'[.!?]+', s): a maximal run of delimiters is one split point
ReSplitSentences(s) == SplitOn(SquashSeps(s, SentenceDelims), SentenceDelims)

\* the text before the first occurrence of c: s.split(c)[0]
BeforeFirst(s, c) ==
    IF \E i \in 1..Len(s) : CharAt(s, i) = c
    THEN SubSeq(s, 1, (CHOOSE i \in 1..Len(s) :
                          /\ CharAt(s, i) = c
                          /\ \A j \in 1..(i - 1) : CharAt(s, j) # c) - 1)
    ELSE s

\* str.replace(a, b) for one-character a and b
ReplaceChar(s, a, b) ==
    ConcatRange([i \in 1..Len(s) |-> IF CharAt(s, i) = a THEN b ELSE CharAt(s, i)],
                1, Len(s))

\* str.title(): a cased character is upper-cased after an uncased one (or at
\* the start) and lower-cased after a cased one
Title(s) ==
    ConcatRange([i \in 1..Len(s) |->
                    IF i > 1 /\ IsCased(CharAt(s, i - 1))
                    THEN LowerChar(CharAt(s, i)) ELSE UpperChar(CharAt(s, i))],
                1, Len(s))

(***************************************************************************)
(* AIEmailProcessor.process_email_with_rules: keyword tables.              *)
(***************************************************************************)
crisis_keywords ==
    <<"unacceptable", "lawsuit", "legal action", "sue", "breach of contract",
      "system down", "system failure", "lost revenue", "losing money",
      "disaster", "incompetence", "terminate contract", "failed", "broken">>

complaint_keywords ==
    <<"complaint", "unhappy", "disappointed", "frustrated", "angry",
      "terrible", "awful", "worst", "disgusted", "unacceptable">>

sales_keywords ==
    <<"evaluation", "evaluating", "requirement", "deployment", "enterprise",
      "budget", "proposal", "rfp", "vendor", "implementation", "pilot",
      "trial", "demo", "users", "employees", "global", "scale">>

support_keywords ==
    <<"error", "bug", "issue", "problem", "not working", "broken",
      "help", "support", "technical", "troubleshoot", "fix", "resolve",
      "integration", "stopped working", "failing", "timeout", "can't",
      "unable", "failure", "not functioning">>

pricing_keywords ==
    <<"pricing", "cost", "price", "plan", "quote", "discount",
      "billing", "payment", "subscription", "fee", "charge">>

urgent_indicators ==
    <<"urgent", "asap", "immediately", "critical", "emergency",
      "right now", "immediate", "time sensitive", "!!!">>

high_value_indicators ==
    <<"$", "million", "thousand", "budget", "enterprise",
      "10,000", "50,000", "100,000", "1m+", "global deployment">>

negative_indicators ==
    <<"unacceptable", "terrible", "awful", "horrible", "worst",
      "angry", "furious", "frustrated", "disappointed", "upset",
      "disaster", "failure", "incompetent", "pathetic">>

positive_indicators ==
    <<"thank", "thanks", "appreciate", "great", "excellent",
      "wonderful", "fantastic", "amazing", "pleased", "happy",
      "excited", "looking forward", "interested">>

important_keywords ==
    <<"demand", "require", "must", "need", "want", "expect",
      "budget", "deadline", "urgent", "million", "thousand",
      "employees", "users", "issue", "problem", "error">>

\* the signal counts of lines 171-175, of the lower-cased content
SignalCounts(content_lower) ==
    [crisis    |-> CountIn(crisis_keywords, content_lower),
     complaint |-> CountIn(complaint_keywords, content_lower),
     sales     |-> CountIn(sales_keywords, content_lower),
     support   |-> CountIn(support_keywords, content_lower),
     pricing   |-> CountIn(pricing_keywords, content_lower)]

(***************************************************************************)
(* The conditions of the intent cascade, in the order of the if/elif chain.*)
(***************************************************************************)
CrisisRule(c, content_lower, subject_lower) ==
    c.crisis >= 2 \/ (Contains("urgent", subject_lower) /\ c.complaint >= 1)

StrongComplaintRule(c, content_lower, subject_lower) == c.complaint >= 2

SalesRule(c, content_lower, subject_lower) ==
    \/ c.sales >= 2 /\ AnyIn(<<"deployment", "enterprise", "evaluation", "requirements">>, content_lower)
    \/ c.pricing >= 1 /\ AnyIn(<<"enterprise", "custom", "deployment">>, content_lower)
    \/ c.sales >= 3 /\ AnyIn(<<"budget", "000", "million", "employees">>, content_lower)

\* a plausible slip: the subject flags alone, without the support count
UrgentSupportRule_SubjectOnly(c, content_lower, subject_lower) ==
    Contains("urgent", subject_lower) \/ Contains("broken", subject_lower)

UrgentSupportRule(c, content_lower, subject_lower) ==
    c.support >= 1 /\ (Contains("urgent", subject_lower) \/ Contains("broken", subject_lower))

SupportRule(c, content_lower, subject_lower) == c.support >= 2

PricingRule(c, content_lower, subject_lower) == c.pricing >= 1

\* a plausible slip: the sales branch placed before the strong-complaint branch
IntentCascade_SalesFirst(c, content_lower, subject_lower) ==
    IF CrisisRule(c, content_lower, subject_lower)
    THEN [intent |-> "complaint", priority |-> "urgent"]
    ELSE IF SalesRule(c, content_lower, subject_lower)
    THEN [intent |-> "sales_opportunity", priority |-> "high"]
    ELSE IF StrongComplaintRule(c, content_lower, subject_lower)
    THEN [intent |-> "complaint", priority |-> "high"]
    ELSE IF UrgentSupportRule(c, content_lower, subject_lower)
    THEN [intent |-> "support_request", priority |-> "urgent"]
    ELSE IF SupportRule(c, content_lower, subject_lower)
    THEN [intent |-> "support_request",
          priority |-> IF ~AnyIn(<<"urgent", "asap", "critical">>, content_lower)
                       THEN "normal" ELSE "high"]
    ELSE IF PricingRule(c, content_lower, subject_lower)
    THEN [intent |-> "pricing_inquiry", priority |-> "normal"]
    ELSE [intent |-> "general_inquiry", priority |-> "normal"]

\* lines 178-202: the intent and the priority the cascade assigns
IntentCascade(c, content_lower, subject_lower) ==
    IF CrisisRule(c, content_lower, subject_lower)
    THEN [intent |-> "complaint", priority |-> "urgent"]
    ELSE IF StrongComplaintRule(c, content_lower, subject_lower)
    THEN [intent |-> "complaint", priority |-> "high"]
    ELSE IF SalesRule(c, content_lower, subject_lower)
    THEN [intent |-> "sales_opportunity", priority |-> "high"]
    ELSE IF UrgentSupportRule(c, content_lower, subject_lower)
    THEN [intent |-> "support_request", priority |-> "urgent"]
    ELSE IF SupportRule(c, content_lower, subject_lower)
    THEN [intent |-> "support_request",
          priority |-> IF ~AnyIn(<<"urgent", "asap", "critical">>, content_lower)
                       THEN "normal" ELSE "high"]
    ELSE IF PricingRule(c, content_lower, subject_lower)
    THEN [intent |-> "pricing_inquiry", priority |-> "normal"]
    ELSE [intent |-> "general_inquiry", priority |-> "normal"]

\* a plausible slip: the override applied only to a priority still 'normal'
UrgencyOverride_OnlyFromNormal(priority, content_lower) ==
    IF AnyIn(urgent_indicators, content_lower)
    THEN (IF priority = "normal" THEN "urgent" ELSE priority)
    ELSE priority

\* lines 217-218
UrgencyOverride(priority, content_lower) ==
    IF AnyIn(urgent_indicators, content_lower)
    THEN (IF priority # "urgent" THEN "urgent" ELSE priority)
    ELSE priority

\* a plausible slip: priority = 'high' without the test on the current value
HighValueOverride_Unconditional(priority, content_lower) ==
    IF AnyIn(high_value_indicators, content_lower) THEN "high" ELSE priority

\* lines 221-222
HighValueOverride(priority, content_lower) ==
    IF AnyIn(high_value_indicators, content_lower)
    THEN (IF priority = "normal" THEN "high" ELSE priority)
    ELSE priority

\* line 242: ALL-CAPS words longer than 3 characters, of the original content
CapsWords(content) ==
    Len(SelectSeq(Words(content), LAMBDA w : IsUpper(w) /\ Len(w) > 3))

\* a plausible slip: the ALL-CAPS count left out of the test for negative
Sentiment_NoCapsRule(content, content_lower) ==
    LET negative_score == CountIn(negative_indicators, content_lower)
        positive_score == CountIn(positive_indicators, content_lower)
        exclamation_count == CountChar("!", content)
    IN  IF negative_score > positive_score \/ exclamation_count > 10
        THEN "negative"
        ELSE IF positive_score > negative_score THEN "positive"
        ELSE "neutral"

\* a plausible slip: >= in the test for positive
Sentiment_NonStrict(content, content_lower) ==
    LET negative_score == CountIn(negative_indicators, content_lower)
        positive_score == CountIn(positive_indicators, content_lower)
        caps_words == CapsWords(content)
        exclamation_count == CountChar("!", content)
    IN  IF negative_score > positive_score \/ caps_words > 5 \/ exclamation_count > 10
        THEN "negative"
        ELSE IF positive_score >= negative_score THEN "positive"
        ELSE "neutral"

\* lines 238-251
Sentiment(content, content_lower) ==
    LET negative_score == CountIn(negative_indicators, content_lower)
        positive_score == CountIn(positive_indicators, content_lower)
        caps_words == CapsWords(content)
        exclamation_count == CountChar("!", content)
    IN  IF negative_score > positive_score \/ caps_words > 5 \/ exclamation_count > 10
        THEN "negative"
        ELSE IF positive_score > negative_score THEN "positive"
        ELSE "neutral"

\* a plausible slip: only 'urgent' escalates to a human
RequiresHuman_UrgentOnly(intent, priority, sales_count, content, content_lower) ==
    \/ priority \in {"urgent"}
    \/ intent = "complaint"
    \/ Contains("legal", content_lower)
    \/ Contains("lawsuit", content_lower)
    \/ sales_count >= 5
    \/ Contains("$", content) /\ AnyIn(<<"000", "million", "M">>, content)

\* a plausible slip: the complex-sales disjunct left out
RequiresHuman_NoSalesCount(intent, priority, sales_count, content, content_lower) ==
    \/ priority \in {"high", "urgent"}
    \/ intent = "complaint"
    \/ Contains("legal", content_lower)
    \/ Contains("lawsuit", content_lower)
    \/ Contains("$", content) /\ AnyIn(<<"000", "million", "M">>, content)

\* lines 260-267; 'and' binds tighter than 'or' in the last disjunct
RequiresHuman(intent, priority, sales_count, content, content_lower) ==
    \/ priority \in {"high", "urgent"}
    \/ intent = "complaint"
    \/ Contains("legal", content_lower)
    \/ Contains("lawsuit", content_lower)
    \/ sales_count >= 5
    \/ Contains("$", content) /\ AnyIn(<<"000", "million", "M">>, content)

(***************************************************************************)
(* AIEmailProcessor.extract_key_points_smart                               *)
(***************************************************************************)
\* line 302
ImportanceScore(sentence) == CountIn(important_keywords, StrLower(sentence))

\* lines 297-305: the (importance_score, sentence) pairs, in content order
ImportantSentences(sentences) ==
    LET stripped == [i \in 1..Len(sentences) |-> Strip(sentences[i])]
        kept == SelectSeq(stripped, LAMBDA t :
                    /\ Len(t) > 10
                    /\ \/ ImportanceScore(t) > 0
                       \/ Contains("?", t)
                       \/ Contains("!", t))
    IN  [i \in 1..Len(kept) |-> [score |-> ImportanceScore(kept[i]), sentence |-> kept[i]]]

RECURSIVE SortByScoreFrom(_, _)
\* list.sort(key=score, reverse=True) is stable: the pairs of score k, from
\* the highest k down, each group in its original order
SortByScoreFrom(pairs, k) ==
    IF k < 0 THEN <<>>
    ELSE SelectSeq(pairs, LAMBDA p : p.score = k) \o SortByScoreFrom(pairs, k - 1)

\* a plausible slip: sorted ascending and then reversed, which turns the
\* pairs of equal score around
SortByScoreDesc_TiesReversed(pairs) ==
    SortByScoreFrom([i \in 1..Len(pairs) |-> pairs[Len(pairs) + 1 - i]],
                    Len(important_keywords))

SortByScoreDesc(pairs) == SortByScoreFrom(pairs, Len(important_keywords))

\* seq[:n]
Take(seq, n) == SubSeq(seq, 1, IF Len(seq) < n THEN Len(seq) ELSE n)

\* lines 312-313: the fallback when no sentence was kept
FirstSentences(sentences) ==
    LET first == Take(sentences, 3)
        stripped == [i \in 1..Len(first) |-> Strip(first[i])]
    IN  SelectSeq(stripped, LAMBDA t : Len(t) > 10)

\* a plausible slip: the [:5] slice left out
extract_key_points_smart_NoLimit(content) ==
    LET sentences == ReSplitSentences(content)
        important_sentences == SortByScoreDesc(ImportantSentences(sentences))
        key_points == [i \in 1..Len(important_sentences) |-> important_sentences[i].sentence]
    IN  IF key_points = <<>> THEN FirstSentences(sentences) ELSE key_points

extract_key_points_smart(content) ==
    LET sentences == ReSplitSentences(content)
        important_sentences == SortByScoreDesc(ImportantSentences(sentences))
        top == Take(important_sentences, 5)
        key_points == [i \in 1..Len(top) |-> top[i].sentence]
    IN  IF key_points = <<>> THEN FirstSentences(sentences) ELSE key_points

(***************************************************************************)
(* Response composition.  A rendered response is the template chosen and   *)
(* the values substituted into its slots; a slot the template does not     *)
(* have is "" (sender, subject) or NoTicket.                               *)
(***************************************************************************)
NoTicket == <<>>

\* a plausible slip: the format '%Y%m%d-%H%M%S'
StrfMinute_WithSeconds(t) == <<t.minute, t.second>>

\* datetime.strftime('%Y%m%d-%H%M'): the minute, the seconds are dropped
StrfMinute(t) == <<t.minute>>

\* datetime.isoformat(): the full time
IsoFormat(t) == <<t.minute, t.second>>

\* the keys of the templates dictionary, lines 386-438
TemplateNames == {"pricing_response", "support_response", "complaint_response", "general_response"}

\* lines 440-444: templates.get(name, general_response).format(sender, subject);
\* only the general template has a {subject} slot
get_template_response(template_name, email_data) ==
    LET template == IF template_name \in TemplateNames
                    THEN template_name ELSE "general_response"
    IN  [template |-> template,
         sender   |-> Title(BeforeFirst(email_data.sender, "@")),
         subject  |-> IF template = "general_response" THEN email_data.subject ELSE "",
         ticket   |-> NoTicket]

\* lines 317-369
get_smart_response(intent, email_data, priority, sentiment, t) ==
    LET sender_name == Title(ReplaceChar(BeforeFirst(email_data.sender, "@"), ".", " "))
    IN  IF intent = "complaint" /\ priority = "urgent"
        THEN [template |-> "emergency_escalation", sender |-> sender_name,
              subject |-> "", ticket |-> StrfMinute(t)]
        ELSE IF intent = "sales_opportunity" /\ priority = "high"
        THEN [template |-> "enterprise_sales", sender |-> sender_name,
              subject |-> "", ticket |-> NoTicket]
        ELSE get_template_response(intent \o "_response", email_data)

(***************************************************************************)
(* AIEmailProcessor.process_email_with_rules, called at time t.            *)
(***************************************************************************)
\* a plausible slip: a priority rule that reads the clock
process_email_with_rules_AfterHours(email_data, t) ==
    LET content_lower == StrLower(email_data.content)
        subject_lower == StrLower(email_data.subject)
        counts == SignalCounts(content_lower)
        base == IntentCascade(counts, content_lower, subject_lower)
        intent == base.intent
        day_priority == HighValueOverride(UrgencyOverride(base.priority, content_lower),
                                          content_lower)
        priority == IF t.minute > 0 /\ day_priority = "normal" THEN "high" ELSE day_priority
        sentiment == Sentiment(email_data.content, content_lower)
    IN  [intent             |-> intent,
         priority           |-> priority,
         key_points         |-> extract_key_points_smart(email_data.content),
         suggested_response |-> get_smart_response(intent, email_data, priority, sentiment, t),
         requires_human     |-> RequiresHuman(intent, priority, counts.sales,
                                              email_data.content, content_lower),
         sentiment          |-> sentiment,
         original_email     |-> email_data,
         knowledge_used     |-> <<>>,
         processed_at       |-> IsoFormat(t)]

process_email_with_rules(email_data, t) ==
    LET content_lower == StrLower(email_data.content)
        subject_lower == StrLower(email_data.subject)
        counts == SignalCounts(content_lower)
        base == IntentCascade(counts, content_lower, subject_lower)
        intent == base.intent
        priority == HighValueOverride(UrgencyOverride(base.priority, content_lower),
                                      content_lower)
        sentiment == Sentiment(email_data.content, content_lower)
    IN  [intent             |-> intent,
         priority           |-> priority,
         key_points         |-> extract_key_points_smart(email_data.content),
         suggested_response |-> get_smart_response(intent, email_data, priority, sentiment, t),
         requires_human     |-> RequiresHuman(intent, priority, counts.sales,
                                              email_data.content, content_lower),
         sentiment          |-> sentiment,
         original_email     |-> email_data,
         knowledge_used     |-> <<>>,
         processed_at       |-> IsoFormat(t)]

(***************************************************************************)
(* The requests of the model: the messages of the repository's test suite  *)
(* (src/test_comprehensive.py) and every subject of Subjects with every    *)
(* content of Contents.                                                    *)
(***************************************************************************)
SuiteMessages ==
    {[sender  |-> "ceo@fortune500.com",
      subject |-> "URGENT!!! COMPLETE SYSTEM FAILURE",
      content |-> "This is ABSOLUTELY UNACCEPTABLE!!!! Your system has been down for 6 HOURS! We've lost $2 MILLION! If not fixed in 30 MINUTES, expect a LAWSUIT!"],
     [sender  |-> "cto@bigtech.com",
      subject |-> "Enterprise deployment for 50,000 users",
      content |-> "We're evaluating solutions for our global deployment. Need to handle 1M+ emails/day. Budget is $500K-$1M annually. Need proposal by month-end."],
     [sender  |-> "dev@startup.com",
      subject |-> "API Authentication Error",
      content |-> "Getting 401 error when calling your API. I've checked the API key multiple times. Can you help troubleshoot?"],
     [sender  |-> "info@smallbiz.com",
      subject |-> "Pricing information",
      content |-> "Hi, what are your pricing plans? We're a team of 10 people."],
     [sender  |-> "admin@company.com",
      subject |-> "URGENT: Integration broken",
      content |-> "Our Salesforce integration stopped working this morning! This is urgent as our sales team can't work. Please help ASAP!"],
     [sender  |-> "happy@customer.com",
      subject |-> "Great product!",
      content |-> "Just wanted to say thanks! Your product is amazing and has saved us so much time. The team loves it!"],
     [sender  |-> "architect@enterprise.com",
      subject |-> "Technical evaluation questions",
      content |-> "We need: Kubernetes deployment, 99.99% SLA, GDPR compliance, SOC2, multi-region support, custom ML models, 10k requests/sec. Also need on-premise option. What's your enterprise pricing?"],
     [sender  |-> "user@company.com",
      subject |-> "Issue but love the product",
      content |-> "I love your product and it's been great, but recently we've had issues with the API timing out. This is frustrating as we rely on it. Can you help fix this?"]}

Subjects == {"Hello", "URGENT help", "Broken again"}

Contents ==
    {"",
     "great but terrible and awful",
     "great but terrible",
     "great and excellent but awful",
     "thanks, this is wonderful",
     "rfp vendor pilot trial demo",
     "deadline is today",
     "wow! really! yes!",
     "we need this immediately",
     "call me now!!!",
     "what is the price",
     "the budget is $5 million",
     "unacceptable disaster",
     "terrible awful enterprise deployment",
     "enterprise deployment error bug",
     "enterprise price for 10,000 seats",
     "error bug asap",
     "error and bug here",
     "it shows an error",
     "this is awful",
     "Hi. Ok. Yo. this is a long sentence",
     "abcdefghij",
     "abcdefghijk",
     "please send the legal terms",
     "THANK YOU THIS WORKS VERY WELL TODAY INDEED FOLKS",
     "we need item a1. we need item b2! we need item c3? we need item d4. we need item e5. we must need item f6."}

Messages ==
    SuiteMessages \cup
    {[sender |-> "john.doe@x.com", subject |-> sub, content |-> c] :
        sub \in Subjects, c \in Contents}

Clock == {[minute |-> m, second |-> s] : m \in 0..MaxTime, s \in {0, 30}}

(***************************************************************************)
(* The state machine: one request body, a running clock, and calls of      *)
(* process_email_with_rules on that body.                                  *)
(***************************************************************************)
Init ==
    /\ msg \in Messages
    /\ now = [minute |-> 0, second |-> 0]
    /\ results = <<>>
    /\ ollama_results = <<>>
    /\ use_ollama = FALSE
    /\ llm_results = <<>>
    /\ RateInit
    /\ ConcInit
    /\ WsInit
    /\ TaskInit
    /\ MgrInit
    /\ ApiInit
    /\ KeyInit
    /\ ProcInit

\* time passes between two calls
Tick ==
    /\ \/ now.second = 0 /\ now' = [now EXCEPT !.second = 30]
       \/ now.second = 30 /\ now.minute < MaxTime
          /\ now' = [minute |-> now.minute + 1, second |-> 0]
    /\ UNCHANGED <<msg, results, ollama_results, use_ollama, llm_results>>
    /\ UNCHANGED notEmail

\* one call of the rule-based engine on the request body
ProcessEmailWithRules ==
    /\ Len(results) < MaxCalls
    /\ results' = Append(results, process_email_with_rules(msg, now))
    /\ UNCHANGED <<msg, now, ollama_results, use_ollama, llm_results>>
    /\ UNCHANGED notEmail

Next == Tick \/ ProcessEmailWithRules

Spec == Init /\ [][Next]_vars

TypeOK ==
    /\ msg \in Messages
    /\ now \in Clock
    /\ \A i \in 1..Len(results) :
          /\ results[i].intent \in {"complaint", "sales_opportunity", "support_request",
                                    "pricing_inquiry", "general_inquiry"}
          /\ results[i].priority \in {"normal", "high", "urgent"}
          /\ results[i].sentiment \in {"negative", "neutral", "positive"}
          /\ results[i].requires_human \in BOOLEAN

(***************************************************************************)
(* OllamaEmailProcessor (src/src/main_ollama.py): the rule-based path.     *)
(***************************************************************************)
\* lines 134-180: the initial values and the if/elif chain; content and
\* subject are lower-cased
OllamaBranch(content, subject) ==
    IF AnyIn(<<"lawsuit", "legal action", "sue", "unacceptable", "lost revenue", "million">>, content)
    THEN [intent |-> "complaint", priority |-> "urgent",
          sentiment |-> "negative", requires_human |-> TRUE]
    ELSE IF AnyIn(<<"deployment", "enterprise", "evaluation", "budget">>, content)
            /\ AnyIn(<<"000", "users", "global", "scale">>, content)
    THEN [intent |-> "sales_opportunity", priority |-> "high",
          sentiment |-> "neutral", requires_human |-> TRUE]
    ELSE IF \/ AnyIn(<<"error", "broken", "issue", "problem", "not working", "api", "integration">>, content)
            \/ AnyIn(<<"error", "broken", "issue">>, subject)
    THEN IF Contains("urgent", subject) \/ Contains("urgent", content) \/ Contains("asap", content)
         THEN [intent |-> "support_request", priority |-> "urgent",
               sentiment |-> "negative", requires_human |-> TRUE]
         ELSE [intent |-> "support_request", priority |-> "normal",
               sentiment |-> "neutral", requires_human |-> FALSE]
    ELSE IF AnyIn(<<"pricing", "cost", "price", "plan">>, content)
    THEN [intent |-> "pricing_inquiry", priority |-> "normal",
          sentiment |-> "neutral", requires_human |-> FALSE]
    ELSE IF Contains("technical evaluation", subject)
            /\ AnyIn(<<"kubernetes", "sla", "compliance">>, content)
    THEN [intent |-> "sales_opportunity", priority |-> "high",
          sentiment |-> "neutral", requires_human |-> TRUE]
    ELSE IF AnyIn(<<"thank", "great", "love", "amazing">>, content)
    THEN [intent |-> "general_inquiry", priority |-> "normal",
          sentiment |-> "positive", requires_human |-> FALSE]
    ELSE [intent |-> "general_inquiry", priority |-> "normal",
          sentiment |-> "neutral", requires_human |-> FALSE]

\* lines 182-188: the mixed sentiment check
OllamaMixedCheck(r, content) ==
    LET positive_words == CountIn(<<"love", "great", "thank">>, content)
        negative_words == CountIn(<<"issue", "problem", "frustrating">>, content)
    IN  IF positive_words > 0 /\ negative_words > 0
        THEN [r EXCEPT !.sentiment = "neutral",
                       !.priority = IF Contains("issue", content) \/ Contains("problem", content)
                                    THEN "normal" ELSE @]
        ELSE r

\* lines 190-195: the final sentiment check
OllamaFinalSentiment(r, content) ==
    IF r.sentiment = "neutral"
    THEN IF AnyIn(<<"angry", "frustrated", "terrible", "awful">>, content)
         THEN [r EXCEPT !.sentiment = "negative"]
         ELSE IF AnyIn(<<"thank", "great", "excellent", "happy">>, content)
         THEN [r EXCEPT !.sentiment = "positive"]
         ELSE r
    ELSE r

\* lines 209-212: _extract_key_points
ollama_extract_key_points(content) ==
    LET sentences == ReSplitSentences(content)
        stripped == [i \in 1..Len(sentences) |-> Strip(sentences[i])]
    IN  Take(SelectSeq(stripped, LAMBDA t : Len(t) > 20), 3)

\* the keys of the templates dictionary of _generate_response, lines 218-224
OllamaTemplateNames ==
    {"complaint", "sales_opportunity", "support_request", "pricing_inquiry", "general_inquiry"}

\* lines 214-226: _generate_response; every template is an f-string, so the
\* complaint ticket is formatted on every call but shows only in that template
ollama_generate_response(intent, email_data, t) ==
    LET name == Title(ReplaceChar(BeforeFirst(email_data.sender, "@"), ".", " "))
        template == IF intent \in OllamaTemplateNames THEN intent ELSE "general_inquiry"
    IN  [template |-> template, sender |-> name,
         ticket |-> IF template = "complaint" THEN StrfMinute(t) ELSE NoTicket]

\* lines 129-207: _process_with_rules, called at time t
ollama_process_with_rules(email_data, t) ==
    LET content == StrLower(email_data.content)
        subject == StrLower(email_data.subject)
        r == OllamaFinalSentiment(OllamaMixedCheck(OllamaBranch(content, subject), content),
                                  content)
    IN  [intent             |-> r.intent,
         priority           |-> r.priority,
         sentiment          |-> r.sentiment,
         requires_human     |-> r.requires_human,
         key_points         |-> ollama_extract_key_points(email_data.content),
         suggested_response |-> ollama_generate_response(r.intent, email_data, t),
         original_email     |-> email_data,
         processed_at       |-> IsoFormat(t),
         ai_model           |-> "rules-enhanced"]

OllamaSubjects == {"Hello", "Technical evaluation questions", "URGENT: it is broken"}

OllamaContents ==
    {"",
     "we love it but there is one problem",
     "great product but one problem",
     "thank you, it was frustrating before",
     "love it, frustrating at times",
     "kubernetes and sla are required",
     "kubernetes, sla, and what is the price",
     "compliance report for 500 seats",
     "enterprise deployment for 5000 users",
     "the api returns an error asap",
     "the api returns an error",
     "this is unacceptable",
     "what does the plan cost",
     "great work, thank you",
     "terrible and awful service"}

OllamaMessages ==
    SuiteMessages \cup
    {[sender |-> "john.doe@x.com", subject |-> sub, content |-> c] :
        sub \in OllamaSubjects, c \in OllamaContents}

InitOllama ==
    /\ msg \in OllamaMessages
    /\ now = [minute |-> 0, second |-> 0]
    /\ results = <<>>
    /\ ollama_results = <<>>
    /\ use_ollama = FALSE
    /\ llm_results = <<>>
    /\ RateInit
    /\ ConcInit
    /\ WsInit
    /\ TaskInit
    /\ MgrInit
    /\ ApiInit
    /\ KeyInit
    /\ ProcInit

\* one call of OllamaEmailProcessor._process_with_rules on the request body
ProcessWithRulesOllama ==
    /\ Len(ollama_results) < MaxCalls
    /\ ollama_results' = Append(ollama_results, ollama_process_with_rules(msg, now))
    /\ UNCHANGED <<msg, now, results, use_ollama, llm_results>>
    /\ UNCHANGED notEmail

NextOllama == Tick \/ ProcessWithRulesOllama

SpecOllama == InitOllama /\ [][NextOllama]_vars

(***************************************************************************)
(* The classifiers that consult a language model first:                    *)
(* OllamaEmailProcessor.process_email (src/src/main_ollama.py, 50-127) and *)
(* AIEmailProcessor.process_email_with_ai (src/src/main_enhanced.py,       *)
(* 80-126).  A call of the model either raises or yields a reply.          *)
(***************************************************************************)
None == "None"

\* text.split(marker)[1]: what stands between the first and the second
\* occurrence of marker; the caller has checked that marker is in text
AfterMarker(text, marker) ==
    LET n == Len(marker)
        hits == {i \in 1..(Len(text) - n + 1) : SubSeq(text, i, i + n - 1) = marker}
        first == CHOOSE i \in hits : \A j \in hits : i <= j
        later == {i \in hits : i >= first + n}
    IN  IF later = {} THEN SubSeq(text, first + n, Len(text))
        ELSE SubSeq(text, first + n, (CHOOSE i \in later : \A j \in later : i <= j) - 1)

\* main_ollama.py lines 120-127: _extract_value
extract_value(text, marker, valid_values) ==
    IF Contains(marker, text)
    THEN LET after_marker == Strip(BeforeFirst(AfterMarker(text, marker), "\n"))
             found == {k \in 1..Len(valid_values) : Contains(valid_values[k], after_marker)}
         IN  IF found = {} THEN None
             ELSE valid_values[CHOOSE k \in found : \A j \in found : k <= j]
    ELSE None

\* main_ollama.py line 98
extract_human(text) ==
    IF Contains("human:", text) THEN Contains("yes", AfterMarker(text, "human:")) ELSE FALSE

\* what ollama.generate does: it raises, or it returns a reply text
OllamaReplyTexts ==
    {"INTENT: complaint\nPRIORITY: urgent\nSENTIMENT: negative\nHUMAN: yes",
     "INTENT: general_inquiry\nPRIORITY: normal\nSENTIMENT: positive\nHUMAN: no",
     "Intent: Support_Request or complaint\nHuman: no, but yes if it happens again",
     "INTENT: complaint",
     "INTENT: unknown\nPRIORITY: high\nSENTIMENT: neutral\nHUMAN: yes",
     "PRIORITY: urgent\nHUMAN: yes",
     "I cannot classify this email.",
     ""}

OllamaOutcomes ==
    {[kind |-> "error", text |-> ""]} \cup {[kind |-> "reply", text |-> t] : t \in OllamaReplyTexts}

\* main_ollama.py lines 50-117: process_email at time t, the model call ending as llm
ollama_process_email(email_data, t, enabled, llm) ==
    IF enabled /\ llm.kind = "reply"
    THEN LET text == StrLower(llm.text)
             intent == extract_value(text, "intent:",
                          <<"pricing_inquiry", "support_request", "complaint",
                            "sales_opportunity", "general_inquiry">>)
             priority == extract_value(text, "priority:", <<"urgent", "high", "normal">>)
             sentiment == extract_value(text, "sentiment:", <<"positive", "neutral", "negative">>)
             human == extract_human(text)
         IN  IF intent # None
             THEN [intent             |-> intent,
                   priority           |-> IF priority # None THEN priority ELSE "normal",
                   sentiment          |-> IF sentiment # None THEN sentiment ELSE "neutral",
                   requires_human     |-> human,
                   key_points         |-> ollama_extract_key_points(email_data.content),
                   suggested_response |-> ollama_generate_response(intent, email_data, t),
                   original_email     |-> email_data,
                   processed_at       |-> IsoFormat(t),
                   ai_model           |-> "ollama-mistral"]
             ELSE ollama_process_with_rules(email_data, t)
    ELSE ollama_process_with_rules(email_data, t)

\* main_enhanced.py lines 450-470: the knowledge base after start-up
knowledge_base ==
    <<[title |-> "Product Overview",
       content |-> "AI Workflow Agent is an enterprise email automation platform that uses advanced AI to process and respond to customer emails. Features include smart categorization, automated responses, and integration with popular tools."],
      [title |-> "Security & Compliance",
       content |-> "We are SOC 2 Type II certified, GDPR compliant, and use end-to-end encryption for all data. Our infrastructure is hosted on AWS with 99.9% uptime SLA. All data is encrypted at rest and in transit."],
      [title |-> "Integration Guide",
       content |-> "AI Workflow integrates with Gmail, Outlook, Slack, Notion, Salesforce, and 50+ other tools. Setup takes less than 5 minutes with our OAuth2 integration. API access is available for custom integrations."]>>

\* main_enhanced.py lines 69-78: find_relevant_knowledge
find_relevant_knowledge(query) ==
    LET words == Words(StrLower(query))
        lowered == [k \in 1..Len(knowledge_base) |-> StrLower(knowledge_base[k].content)]
        hit == {k \in 1..Len(knowledge_base) :
                   \E w \in 1..Len(words) : Contains(words[w], lowered[k])}
        RECURSIVE Pick(_)
        Pick(k) == IF k > Len(knowledge_base) THEN <<>>
                   ELSE (IF k \in hit THEN <<knowledge_base[k]>> ELSE <<>>) \o Pick(k + 1)
    IN  Take(Pick(1), 3)

\* a reply that follows the structure the system prompt asks for
StructuredReply ==
    [intent |-> "complaint", priority |-> "urgent", key_points |-> <<"refund">>,
     suggested_response |-> "We are sorry.", requires_human |-> TRUE, sentiment |-> "negative"]

\* what json.loads makes of the model's reply: it raises on a text that is
\* not JSON, or returns a list, or returns a dict holding the keys of keys
\* ("intent" carrying the value of intent); kind error is a failed API call
OpenAIOutcomes ==
    {[kind |-> k, keys |-> {}, intent |-> "complaint"] : k \in {"error", "not_json", "json_list"}}
    \cup {[kind |-> "json_dict", keys |-> ks, intent |-> v] :
            ks \in {{}, {"intent"}, {"intent", "priority"}, DOMAIN StructuredReply},
            v \in {"complaint", "banana"}}

\* main_enhanced.py lines 80-126: process_email_with_ai at time t
process_email_with_ai(email_data, t, llm) ==
    IF llm.kind = "json_dict"
    THEN LET relevant_kb == find_relevant_knowledge(email_data.subject \o " " \o email_data.content)
             reply == [k \in llm.keys |-> IF k = "intent" THEN llm.intent ELSE StructuredReply[k]]
             added == [original_email |-> email_data,
                       knowledge_used |-> [k \in 1..Len(relevant_kb) |-> relevant_kb[k].title],
                       processed_at   |-> IsoFormat(t)]
         IN  added @@ reply
    ELSE process_email_with_rules(email_data, t)

LLMMessages ==
    {m \in SuiteMessages : m.subject \in {"Great product!", "URGENT!!! COMPLETE SYSTEM FAILURE"}}
    \cup {[sender |-> "john.doe@x.com", subject |-> "Hello", content |-> "what does the plan cost"]}

InitLLM ==
    /\ msg \in LLMMessages
    /\ now = [minute |-> 0, second |-> 0]
    /\ results = <<>>
    /\ ollama_results = <<>>
    /\ use_ollama \in BOOLEAN
    /\ llm_results = <<>>
    /\ RateInit
    /\ ConcInit
    /\ WsInit
    /\ TaskInit
    /\ MgrInit
    /\ ApiInit
    /\ KeyInit
    /\ ProcInit

\* main_ollama.py lines 250-258: POST /api/test-email
ProcessEmailOllama ==
    /\ Len(llm_results) < MaxLLMCalls
    /\ \E llm \in OllamaOutcomes :
          llm_results' = Append(llm_results,
              [processor |-> "ollama", enabled |-> use_ollama, llm |-> llm, at |-> now,
               result |-> ollama_process_email(msg, now, use_ollama, llm)])
    /\ UNCHANGED <<msg, now, results, ollama_results, use_ollama>>
    /\ UNCHANGED notEmail

\* main_enhanced.py lines 487-503: POST /api/test-email with an API key set
ProcessEmailWithAI ==
    /\ Len(llm_results) < MaxLLMCalls
    /\ \E llm \in OpenAIOutcomes :
          llm_results' = Append(llm_results,
              [processor |-> "openai", enabled |-> TRUE, llm |-> llm, at |-> now,
               result |-> process_email_with_ai(msg, now, llm)])
    /\ UNCHANGED <<msg, now, results, ollama_results, use_ollama>>
    /\ UNCHANGED notEmail

NextLLM == Tick \/ ProcessEmailOllama \/ ProcessEmailWithAI

SpecLLM == InitLLM /\ [][NextLLM]_vars

(***************************************************************************)
(* The production service: TenantManager.check_rate_limit                  *)
(* (src/src/core/tenant_manager.py, 96-143) behind POST                    *)
(* /api/v1/emails/process (src/src/main_production.py, 89-132).            *)
(***************************************************************************)
\* the rows of one action with timestamp >= since
CountSince(table, action, since) ==
    LET RECURSIVE Sum(_)
        Sum(t) == IF t > MaxRateTime + 1 THEN 0
                  ELSE (IF t >= since THEN table[action][t] ELSE 0) + Sum(t + 1)
    IN  Sum(0)

\* tenant_manager.py lines 96-143 for action 'email_processing' at time t:
\* the verdict, the message and the table after the call
check_rate_limit(table, action, t) ==
    LET hour_ago == t - 1
        email_count == CountSince(table, "email_processed", hour_ago)
    IN  IF action = "email_processing" /\ email_count >= emails_per_hour
        THEN [allowed |-> FALSE,
              message |-> "Hourly email limit exceeded (" \o ToString(emails_per_hour)
                          \o " emails/hour)",
              table   |-> table]
        ELSE [allowed |-> TRUE, message |-> "",
              table   |-> [table EXCEPT ![action][t] = @ + 1]]

InitRate ==
    /\ msg = [sender |-> "john.doe@x.com", subject |-> "Hello", content |-> ""]
    /\ now = [minute |-> 0, second |-> 0]
    /\ results = <<>>
    /\ ollama_results = <<>>
    /\ use_ollama = FALSE
    /\ llm_results = <<>>
    /\ RateInit
    /\ ConcInit
    /\ WsInit
    /\ TaskInit
    /\ MgrInit
    /\ ApiInit
    /\ KeyInit
    /\ ProcInit

\* time passes between two requests
RateTick ==
    /\ rate_now < MaxRateTime
    /\ rate_now' = rate_now + 1
    /\ UNCHANGED <<usage, requests, tasks_enqueued, last_response>>
    /\ UNCHANGED notRate

\* main_production.py lines 89-132 and the handler of lines 67-77: one call
\* of POST /api/v1/emails/process by the organization
PostProcessEmail ==
    /\ requests < MaxRequests
    /\ requests' = requests + 1
    /\ LET verdict == check_rate_limit(usage, "email_processing", rate_now)
       IN  /\ usage' = verdict.table
           /\ IF ~verdict.allowed
              THEN /\ last_response' = [status_code |-> 429, error |-> verdict.message]
                   /\ UNCHANGED tasks_enqueued
              ELSE /\ tasks_enqueued' = tasks_enqueued + 1
                   /\ last_response' = [status_code |-> 200, error |-> ""]
    /\ UNCHANGED rate_now
    /\ UNCHANGED notRate

NextRate == RateTick \/ PostProcessEmail

SpecRate == InitRate /\ [][NextRate]_vars

(***************************************************************************)
(* Concurrent callers of the rule-based engine of main_enhanced.py: each   *)
(* call of process_email_with_rules runs block by block on its own locals, *)
(* and the blocks of different callers interleave freely.                  *)
(***************************************************************************)
ConcMessages ==
    {[sender |-> "john.doe@x.com", subject |-> "Hello",
      content |-> "this is unacceptable, expect a lawsuit"],
     [sender |-> "john.doe@x.com", subject |-> "Hello",
      content |-> "what does the plan cost"],
     [sender |-> "john.doe@x.com", subject |-> "URGENT help",
      content |-> "we need a quote for 500 seats!"]}

InEngine(f) == f.pc \in {"cascade", "overrides", "sentiment", "respond", "human"}

\* a block of caller c runs: its frame becomes f, and the frames of the calls
\* that are under way at that moment are marked as overlapped
RunBlock(c, f) ==
    LET others == \E d \in Callers \ {c} : InEngine(frames[d])
    IN  frames' = [d \in Callers |->
                     IF d = c THEN [f EXCEPT !.overlapped = @ \/ others]
                     ELSE IF InEngine(frames[d]) /\ InEngine(frames[c])
                     THEN [frames[d] EXCEPT !.overlapped = TRUE]
                     ELSE frames[d]]

\* lines 128-175: the call begins; the lower-cased texts and the keyword counts
Call(c) ==
    /\ frames[c].pc = "idle"
    /\ \E email_data \in ConcMessages :
          LET content_lower == StrLower(email_data.content)
          IN  RunBlock(c, [frames[c] EXCEPT !.pc = "cascade",
                                            !.email = email_data,
                                            !.content_lower = content_lower,
                                            !.subject_lower = StrLower(email_data.subject),
                                            !.counts = SignalCounts(content_lower),
                                            !.intent = "general_inquiry",
                                            !.priority = "normal"])
    /\ UNCHANGED processed_emails
    /\ UNCHANGED notConc

\* lines 177-203: the intent cascade
Cascade(c) ==
    /\ frames[c].pc = "cascade"
    /\ LET f == frames[c]
           base == IntentCascade(f.counts, f.content_lower, f.subject_lower)
       IN  RunBlock(c, [f EXCEPT !.pc = "overrides", !.intent = base.intent,
                                 !.priority = base.priority])
    /\ UNCHANGED processed_emails
    /\ UNCHANGED notConc

\* a plausible slip: the priority of the latest stored result is reused
Overrides_FromLastStored(c) ==
    /\ frames[c].pc = "overrides"
    /\ LET f == frames[c]
       IN  RunBlock(c, [f EXCEPT !.pc = "sentiment",
                  !.priority = IF processed_emails # <<>>
                               THEN processed_emails[Len(processed_emails)].priority
                               ELSE HighValueOverride(
                                        UrgencyOverride(f.priority, f.content_lower),
                                        f.content_lower)])
    /\ UNCHANGED processed_emails
    /\ UNCHANGED notConc

\* lines 205-222: the two priority overrides
Overrides(c) ==
    /\ frames[c].pc = "overrides"
    /\ LET f == frames[c]
       IN  RunBlock(c, [f EXCEPT !.pc = "sentiment",
                  !.priority = HighValueOverride(UrgencyOverride(f.priority, f.content_lower),
                                                 f.content_lower)])
    /\ UNCHANGED processed_emails
    /\ UNCHANGED notConc

\* lines 224-251: the sentiment
SentimentBlock(c) ==
    /\ frames[c].pc = "sentiment"
    /\ LET f == frames[c]
       IN  RunBlock(c, [f EXCEPT !.pc = "respond",
                                 !.sentiment = Sentiment(f.email.content, f.content_lower)])
    /\ UNCHANGED processed_emails
    /\ UNCHANGED notConc

\* lines 253-267: key points, response and the human-review flag; the frame
\* keeps them in result until the dictionary is built
Respond(c) ==
    /\ frames[c].pc = "respond"
    /\ LET f == frames[c]
       IN  RunBlock(c, [f EXCEPT !.pc = "human",
                  !.requires_human = RequiresHuman(f.intent, f.priority, f.counts.sales,
                                                   f.email.content, f.content_lower),
                  !.result = [key_points |-> extract_key_points_smart(f.email.content),
                              suggested_response |->
                                  get_smart_response(f.intent, f.email, f.priority,
                                                     f.sentiment, now)]])
    /\ UNCHANGED processed_emails
    /\ UNCHANGED notConc

\* lines 269-279: the dictionary is returned to the endpoint
Return(c) ==
    /\ frames[c].pc = "human"
    /\ LET f == frames[c]
       IN  RunBlock(c, [f EXCEPT !.pc = "returned",
                  !.result = [intent             |-> f.intent,
                              priority           |-> f.priority,
                              key_points         |-> f.result.key_points,
                              suggested_response |-> f.result.suggested_response,
                              requires_human     |-> f.requires_human,
                              sentiment          |-> f.sentiment,
                              original_email     |-> f.email,
                              knowledge_used     |-> <<>>,
                              processed_at       |-> IsoFormat(now)]])
    /\ UNCHANGED processed_emails
    /\ UNCHANGED notConc

\* lines 499-502: the endpoint stores the result and answers
Store(c) ==
    /\ frames[c].pc = "returned"
    /\ processed_emails' = Append(processed_emails, frames[c].result)
    /\ frames' = [frames EXCEPT ![c].pc = "done"]
    /\ UNCHANGED notConc

InitConc ==
    /\ msg = [sender |-> "john.doe@x.com", subject |-> "Hello", content |-> ""]
    /\ now = [minute |-> 0, second |-> 0]
    /\ results = <<>>
    /\ ollama_results = <<>>
    /\ use_ollama = FALSE
    /\ llm_results = <<>>
    /\ RateInit
    /\ ConcInit
    /\ WsInit
    /\ TaskInit
    /\ MgrInit
    /\ ApiInit
    /\ KeyInit
    /\ ProcInit

NextConc ==
    \E c \in Callers :
        \/ Call(c)
        \/ Cascade(c)
        \/ Overrides(c)
        \/ SentimentBlock(c)
        \/ Respond(c)
        \/ Return(c)
        \/ Store(c)

SpecConc == InitConc /\ [][NextConc]_vars

(***************************************************************************)
(* ConnectionManager (src/src/websocket/connection_manager.py).  A send on *)
(* a websocket succeeds while the client side is open and the server has   *)
(* not ended the connection, and raises otherwise.                         *)
(***************************************************************************)
\* disconnect without the clean-up of empty sets of lines 66-67
disconnect_KeepsEmptySet(reg, w) ==
    IF reg.ci[w].present
    THEN LET org_id == reg.ci[w].org_id
         IN  [ac |-> IF reg.ac[org_id].present
                     THEN [reg.ac EXCEPT ![org_id].members = @ \ {w}]
                     ELSE reg.ac,
              ci |-> [reg.ci EXCEPT ![w] = NoInfo],
              g  |-> reg.g - 1]
    ELSE reg

\* lines 57-77: disconnect, on the registries reg = [ac, ci, g]
disconnect(reg, w) ==
    IF reg.ci[w].present
    THEN LET org_id == reg.ci[w].org_id
             left == reg.ac[org_id].members \ {w}
         IN  [ac |-> IF reg.ac[org_id].present
                     THEN [reg.ac EXCEPT ![org_id] =
                               IF left = {} THEN NoMembers
                               ELSE [present |-> TRUE, members |-> left]]
                     ELSE reg.ac,
              ci |-> [reg.ci EXCEPT ![w] = NoInfo],
              g  |-> reg.g - 1]
    ELSE reg

Registries == [ac |-> active_connections, ci |-> connection_info, g |-> gauge]

SetRegistries(reg) ==
    /\ active_connections' = reg.ac
    /\ connection_info' = reg.ci
    /\ gauge' = reg.g

\* websocket.send_json raises unless the peer is there
CanSend(s) == s.client_open /\ s.state # "closed"

\* the client opens the connection and the first line of connect, line 25,
\* accepts it
Accept(w) ==
    /\ sock[w].state = "connecting"
    /\ sock[w].client_open
    /\ sock' = [sock EXCEPT ![w].state = "accepted"]
    /\ UNCHANGED <<active_connections, connection_info, gauge, broadcasts>>
    /\ UNCHANGED notWs

\* lines 27-55: the rest of connect, with the welcome message sent through
\* send_personal_message (lines 79-85)
Connect(w) ==
    /\ sock[w].state = "accepted"
    /\ LET org_id == OrgOf[w]
           reg == [ac |-> [active_connections EXCEPT ![org_id] =
                             [present |-> TRUE, members |-> @.members \cup {w}]],
                   ci |-> [connection_info EXCEPT ![w] =
                             [present |-> TRUE, org_id |-> org_id, pinged |-> FALSE]],
                   g  |-> gauge + 1]
       IN  IF CanSend(sock[w])
           THEN /\ sock' = [sock EXCEPT ![w].state = "open",
                                        ![w].sent = Append(@, "connection")]
                /\ SetRegistries(reg)
           ELSE /\ sock' = [sock EXCEPT ![w].state = "open"]
                /\ SetRegistries(disconnect(reg, w))
    /\ UNCHANGED broadcasts
    /\ UNCHANGED notWs

\* lines 144-152: handle_ping
handle_ping(s, reg, w) ==
    LET marked == [reg EXCEPT !.ci[w] = IF @.present THEN [@ EXCEPT !.pinged = TRUE] ELSE @]
    IN  IF CanSend(s)
        THEN [s |-> [s EXCEPT !.sent = Append(@, "pong")], reg |-> marked]
        ELSE [s |-> s, reg |-> disconnect(marked, w)]

\* lines 124-142: one turn of the loop of handle_websocket on a received
\* message; handle_subscription and handle_unsubscription are not defined
\* in the class, so these two branches raise AttributeError, which line 140
\* catches: the websocket is dropped and the handler returns
Receive(w) ==
    /\ sock[w].state = "open"
    /\ sock[w].inbox # <<>>
    /\ LET data == Head(sock[w].inbox)
           s == [sock[w] EXCEPT !.inbox = Tail(@)]
       IN  IF data = "ping"
           THEN LET r == handle_ping(s, Registries, w)
                IN  /\ sock' = [sock EXCEPT ![w] = r.s]
                    /\ SetRegistries(r.reg)
           ELSE IF data \in {"subscribe", "unsubscribe"}
           THEN /\ sock' = [sock EXCEPT ![w] = [s EXCEPT !.state = "closed"]]
                /\ SetRegistries(disconnect(Registries, w))
           ELSE /\ sock' = [sock EXCEPT ![w] = s]
                /\ UNCHANGED <<active_connections, connection_info, gauge>>
    /\ UNCHANGED broadcasts
    /\ UNCHANGED notWs

\* lines 126 and 138-139: receive_json raises WebSocketDisconnect once the
\* client has gone and nothing is left to read
ReceiveDisconnect(w) ==
    /\ sock[w].state = "open"
    /\ sock[w].inbox = <<>>
    /\ ~sock[w].client_open
    /\ sock' = [sock EXCEPT ![w].state = "closed"]
    /\ SetRegistries(disconnect(Registries, w))
    /\ UNCHANGED broadcasts
    /\ UNCHANGED notWs

\* lines 87-117: send_email_update, broadcast to one organization
Broadcast(org_id) ==
    /\ broadcasts < MaxBroadcasts
    /\ broadcasts' = broadcasts + 1
    /\ IF ~active_connections[org_id].present
       THEN UNCHANGED <<sock, active_connections, connection_info, gauge>>
       ELSE LET targets == active_connections[org_id].members
                disconnected == {w \in targets : ~CanSend(sock[w])}
                RECURSIVE DropAll(_, _)
                DropAll(reg, ws) ==
                    IF ws = {} THEN reg
                    ELSE LET w == CHOOSE x \in ws : TRUE
                         IN  DropAll(disconnect(reg, w), ws \ {w})
            IN  /\ sock' = [w \in Sockets |->
                              IF w \in targets /\ CanSend(sock[w])
                              THEN [sock[w] EXCEPT !.sent = Append(@, "email_update")]
                              ELSE sock[w]]
                /\ SetRegistries(DropAll(Registries, disconnected))
    /\ UNCHANGED notWs

\* the messages a client sends once it is connected
ClientMessages == {"ping", "subscribe", "status"}

ClientSend(w) ==
    /\ sock[w].client_open
    /\ sock[w].state \in {"accepted", "open"}
    /\ sock[w].client_sent < MaxClientMsgs
    /\ \E data \in ClientMessages :
          sock' = [sock EXCEPT ![w].inbox = Append(@, data),
                               ![w].client_sent = @ + 1,
                               ![w].pings_sent = IF data = "ping" THEN @ + 1 ELSE @]
    /\ UNCHANGED <<active_connections, connection_info, gauge, broadcasts>>
    /\ UNCHANGED notWs

ClientClose(w) ==
    /\ sock[w].client_open
    /\ sock[w].state # "connecting"
    /\ sock' = [sock EXCEPT ![w].client_open = FALSE]
    /\ UNCHANGED <<active_connections, connection_info, gauge, broadcasts>>
    /\ UNCHANGED notWs

InitWs ==
    /\ msg = [sender |-> "john.doe@x.com", subject |-> "Hello", content |-> ""]
    /\ now = [minute |-> 0, second |-> 0]
    /\ results = <<>>
    /\ ollama_results = <<>>
    /\ use_ollama = FALSE
    /\ llm_results = <<>>
    /\ RateInit
    /\ ConcInit
    /\ WsInit
    /\ TaskInit
    /\ MgrInit
    /\ ApiInit
    /\ KeyInit
    /\ ProcInit

NextWs ==
    \/ \E w \in Sockets :
          \/ Accept(w)
          \/ Connect(w)
          \/ Receive(w)
          \/ ReceiveDisconnect(w)
          \/ ClientSend(w)
          \/ ClientClose(w)
    \/ \E org_id \in Orgs : Broadcast(org_id)

SpecWs == InitWs /\ [][NextWs]_vars

(***************************************************************************)
(* The background worker: process_email_task (src/src/workers/tasks.py,    *)
(* 13-60) around EmailProcessingAgent.process_email                        *)
(* (src/src/agents/email_agent.py, 73-119).                                *)
(***************************************************************************)
\* the classifiers' variables, unused by the services
EmailIdle ==
    /\ msg = [sender |-> "john.doe@x.com", subject |-> "Hello", content |-> ""]
    /\ now = [minute |-> 0, second |-> 0]
    /\ results = <<>>
    /\ ollama_results = <<>>
    /\ use_ollama = FALSE
    /\ llm_results = <<>>

\* email_agent.py lines 102-108 and 115-119: the keys of the dictionary
\* process_email returns, after a run of the chain or after an exception
AgentResultKeys ==
    [analysis |-> {"original_email", "analysis", "context_used", "suggested_action",
                   "priority"},
     error    |-> {"error", "original_email", "suggested_action"}]

\* tasks.py lines 35-39: the keys process_email_task reads with result[...]
KeysReadByTask == {"intent", "priority", "suggested_response"}

\* celery_app.py line 27
task_max_retries == 3

\* tasks.py lines 18-60: one run of the task on the outcome of the agent;
\* commit and webhook succeed or raise as db_ok and hook_ok say.  The row
\* count and the notification count after the run, and the task's state.
process_email_task(task, rows, sent, outcome, db_ok, hook_ok) ==
    LET result_keys == AgentResultKeys[outcome]
        built == KeysReadByTask \subseteq result_keys
        committed == built /\ db_ok
        notified == committed /\ hook_ok
        ran == [task EXCEPT !.agent = outcome, !.db_ok = db_ok, !.hook_ok = hook_ok]
    IN  [rows |-> IF committed THEN rows + 1 ELSE rows,
         sent |-> IF notified THEN sent + 1 ELSE sent,
         task |-> IF notified THEN [ran EXCEPT !.status = "success"]
                  ELSE IF task.retries < task_max_retries
                  THEN [ran EXCEPT !.status = "retry", !.retries = @ + 1]
                  ELSE [ran EXCEPT !.status = "failure"]]

InitTask ==
    /\ EmailIdle
    /\ RateInit
    /\ ConcInit
    /\ WsInit
    /\ TaskInit
    /\ MgrInit
    /\ ApiInit
    /\ KeyInit
    /\ ProcInit

\* a worker takes a queued or rescheduled task and runs it
RunTask(t) ==
    /\ celery_tasks[t].status \in {"queued", "retry"}
    /\ \E outcome \in {"analysis", "error"}, db_ok \in BOOLEAN, hook_ok \in BOOLEAN :
          LET r == process_email_task(celery_tasks[t], email_task_rows[t], webhooks[t],
                                      outcome, db_ok, hook_ok)
          IN  /\ celery_tasks' = [celery_tasks EXCEPT ![t] = r.task]
              /\ email_task_rows' = [email_task_rows EXCEPT ![t] = r.rows]
              /\ webhooks' = [webhooks EXCEPT ![t] = r.sent]
    /\ UNCHANGED notTask

NextTask == \E t \in TaskIds : RunTask(t)

SpecTask == InitTask /\ [][NextTask]_vars

(***************************************************************************)
(* ConnectionManager with its clock, the periodic health check and         *)
(* broadcast_to_org as a coroutine that is suspended at each send          *)
(* (src/src/websocket/connection_manager.py).  Each websocket is served by *)
(* one handle_websocket call and connects once, for an organization the    *)
(* route passes in.  A send is modelled by its outcome, completion or an   *)
(* exception; the frames a client receives are in the model of the         *)
(* handler's protocol above.                                               *)
(***************************************************************************)
\* everything the manager's model leaves alone
outsideManager == <<emailVars, rateVars, concVars, taskVars, apiVars, keyVars, procVars>>
\* lines 57-77 applied to each websocket of a list (lines 105-107, 168-170)
RECURSIVE disconnect_all(_, _)
disconnect_all(reg, ws) ==
    IF ws = {} THEN reg
    ELSE LET w == CHOOSE x \in ws : TRUE
         IN  disconnect_all(disconnect(reg, w), ws \ {w})

\* lines 27-55: connect after the accept of line 25, for organization org_id
MgrConnect(w, org_id) ==
    /\ sock[w].state = "accepted"
    /\ LET reg == [ac |-> [active_connections EXCEPT ![org_id] =
                             [present |-> TRUE, members |-> @.members \cup {w}]],
                   ci |-> [connection_info EXCEPT ![w] =
                             [present |-> TRUE, org_id |-> org_id, pinged |-> FALSE]],
                   g  |-> gauge + 1]
       IN  /\ sock' = [sock EXCEPT ![w].state = "open"]
           /\ SetRegistries(IF CanSend(sock[w]) THEN reg ELSE disconnect(reg, w))
    /\ set_owner' = IF active_connections[org_id].present THEN set_owner
                    ELSE [set_owner EXCEPT ![org_id] = w]
    /\ last_ping' = [last_ping EXCEPT ![w] = ws_now]
    /\ UNCHANGED <<broadcasts, ws_now, next_check, bcast>>
    /\ UNCHANGED outsideManager

\* lines 124-130 and 144-152: the handler receives a ping the client sent
\* while it was there, and handle_ping answers it
MgrPing(w) ==
    /\ sock[w].state = "open"
    /\ LET marked == [Registries EXCEPT
                         !.ci[w] = IF @.present THEN [@ EXCEPT !.pinged = TRUE] ELSE @]
       IN  SetRegistries(IF CanSend(sock[w]) THEN marked ELSE disconnect(marked, w))
    /\ last_ping' = IF connection_info[w].present
                    THEN [last_ping EXCEPT ![w] = ws_now]
                    ELSE last_ping
    /\ UNCHANGED <<sock, broadcasts, ws_now, set_owner, next_check, bcast>>
    /\ UNCHANGED outsideManager

\* lines 126 and 138-139: receive_json raises WebSocketDisconnect
MgrReceiveDisconnect(w) ==
    /\ sock[w].state = "open"
    /\ ~sock[w].client_open
    /\ sock' = [sock EXCEPT ![w].state = "closed"]
    /\ SetRegistries(disconnect(Registries, w))
    /\ UNCHANGED <<broadcasts, mgrVars>>
    /\ UNCHANGED outsideManager

\* the client opens the connection and line 25 accepts it
MgrAccept(w) ==
    /\ sock[w].state = "connecting"
    /\ sock[w].client_open
    /\ sock' = [sock EXCEPT ![w].state = "accepted"]
    /\ UNCHANGED <<active_connections, connection_info, gauge, broadcasts, mgrVars>>
    /\ UNCHANGED outsideManager

\* the client goes away
MgrClientClose(w) ==
    /\ sock[w].client_open
    /\ sock[w].state # "connecting"
    /\ sock' = [sock EXCEPT ![w].client_open = FALSE]
    /\ UNCHANGED <<active_connections, connection_info, gauge, broadcasts, mgrVars>>
    /\ UNCHANGED outsideManager

\* time passes, one health-check period at a time
MgrTick ==
    /\ ws_now < MaxMgrTicks * health_check_period
    /\ ws_now' = ws_now + health_check_period
    /\ UNCHANGED <<wsVars, last_ping, set_owner, next_check, bcast>>
    /\ UNCHANGED outsideManager

\* lines 154-173: one turn of the loop of check_connections_health
CheckConnectionsHealth ==
    /\ ws_now >= next_check
    /\ LET disconnected == {w \in Sockets :
                              /\ connection_info[w].present
                              /\ ws_now - last_ping[w] > stale_after}
       IN  SetRegistries(disconnect_all(Registries, disconnected))
    /\ next_check' = ws_now + health_check_period
    /\ UNCHANGED <<sock, broadcasts, ws_now, last_ping, set_owner, bcast>>
    /\ UNCHANGED outsideManager

\* the set object a broadcast iterates: the organization's set while that is
\* still the object the for statement took, and otherwise an object that
\* was emptied and dropped from the dictionary (lines 66-67)
IteratedSet(b) ==
    IF /\ active_connections[b.org_id].present
       /\ set_owner[b.org_id] = b.owner
    THEN active_connections[b.org_id].members
    ELSE {}

\* line 97: the for statement asks the set iterator for the next websocket.
\* The iterator raises RuntimeError when the size of the set differs from
\* the size it had when the iteration began; otherwise it yields a
\* websocket it has not yielded, and it may stop once every websocket that
\* was in the set from the beginning has been yielded (one added meanwhile
\* is met or not, depending on its place in the hash table).  After the
\* loop, lines 105-107 drop the websockets whose send failed.
NextOfLoop(b) ==
    LET pending == IteratedSet(b) \ b.visited
    IN  IF Cardinality(IteratedSet(b)) # b.size0
        THEN {[b |-> [b EXCEPT !.pc = "raised", !.current = ""],
               reg |-> Registries]}
        ELSE {[b |-> [b EXCEPT !.pc = "sending", !.current = w,
                               !.visited = @ \cup {w}],
               reg |-> Registries] : w \in pending}
             \cup
             (IF pending \cap b.snapshot = {}
              THEN {[b |-> [b EXCEPT !.pc = "done", !.current = ""],
                     reg |-> disconnect_all(Registries, b.disconnected)]}
              ELSE {})

\* lines 87-99: one broadcast_to_org call (made by send_email_update, lines
\* 109-117), up to its first send
BroadcastStart(org_id) ==
    /\ bcast.pc = "idle"
    /\ IF ~active_connections[org_id].present
       THEN /\ bcast' = [bcast EXCEPT !.pc = "done", !.org_id = org_id]
            /\ UNCHANGED <<active_connections, connection_info, gauge>>
       ELSE LET b == [bcast EXCEPT
                         !.org_id = org_id,
                         !.owner = set_owner[org_id],
                         !.size0 = Cardinality(active_connections[org_id].members),
                         !.snapshot = active_connections[org_id].members]
            IN  \E r \in NextOfLoop(b) :
                   /\ bcast' = r.b
                   /\ SetRegistries(r.reg)
    /\ UNCHANGED <<sock, broadcasts, ws_now, last_ping, set_owner, next_check>>
    /\ UNCHANGED outsideManager

\* lines 98-102 and back to line 97: the awaited send_json completes or
\* raises, and the loop goes on
BroadcastResume ==
    /\ bcast.pc = "sending"
    /\ LET w == bcast.current
           ok == CanSend(sock[w])
           b == IF ok THEN bcast
                ELSE [bcast EXCEPT !.disconnected = @ \cup {w}]
       IN  \E r \in NextOfLoop(b) :
              /\ bcast' = r.b
              /\ SetRegistries(r.reg)
    /\ UNCHANGED <<sock, broadcasts, ws_now, last_ping, set_owner, next_check>>
    /\ UNCHANGED outsideManager

InitMgr ==
    /\ EmailIdle
    /\ RateInit
    /\ ConcInit
    /\ sock = [w \in Sockets |->
                 [state |-> "connecting", client_open |-> TRUE, inbox |-> <<>>,
                  sent |-> <<>>, client_sent |-> 0, pings_sent |-> 0]]
    /\ active_connections = [o \in MgrOrgs |-> NoMembers]
    /\ connection_info = [w \in Sockets |-> NoInfo]
    /\ gauge = 0
    /\ broadcasts = 0
    /\ TaskInit
    /\ MgrInit
    /\ ApiInit
    /\ KeyInit
    /\ ProcInit

NextMgr ==
    \/ \E w \in Sockets :
          \/ MgrAccept(w)
          \/ \E org_id \in MgrOrgs : MgrConnect(w, org_id)
          \/ MgrPing(w)
          \/ MgrReceiveDisconnect(w)
          \/ MgrClientClose(w)
    \/ MgrTick
    \/ CheckConnectionsHealth
    \/ \E org_id \in MgrOrgs : BroadcastStart(org_id)
    \/ BroadcastResume

SpecMgr == InitMgr /\ [][NextMgr]_vars

(***************************************************************************)
(* TenantManager.check_rate_limit for action 'api_call'                    *)
(* (src/src/core/tenant_manager.py lines 96-143), called by several        *)
(* workers on one database: the count query and the insertion of the usage *)
(* record are two database operations, and nothing holds other callers     *)
(* back between them.                                                      *)
(***************************************************************************)
\* lines 124-128: the rows of the last minute
ApiCountSince(rows, since) ==
    LET RECURSIVE Sum(_)
        Sum(t) == IF t > MaxApiTime THEN 0
                  ELSE (IF t >= since THEN rows[t] ELSE 0) + Sum(t + 1)
    IN  Sum(0)

\* lines 103-132: the call reads the clock, runs the count query and either
\* refuses or goes on to log the usage
ApiCount(c) ==
    /\ api_frames[c].pc = "idle"
    /\ ApiCountSince(api_rows, 0)
           + Cardinality({d \in ApiWorkers : api_frames[d].pc = "counted"}) < MaxApiCalls
    /\ LET minute_ago == api_now - 1
           api_count == ApiCountSince(api_rows, minute_ago)
       IN  api_frames' = [api_frames EXCEPT ![c] =
               IF api_count >= api_calls_per_minute
               THEN [pc |-> "idle", now |-> 0, allowed |-> FALSE,
                     message |-> "API rate limit exceeded ("
                                 \o ToString(api_calls_per_minute) \o " calls/minute)"]
               ELSE [pc |-> "counted", now |-> api_now, allowed |-> TRUE,
                     message |-> ""]]
    /\ UNCHANGED <<api_now, api_rows>>
    /\ UNCHANGED notApi

\* lines 134-143: the usage record, stamped with the time read at line 106,
\* is added and committed, and the call returns (True, None)
ApiInsert(c) ==
    /\ api_frames[c].pc = "counted"
    /\ api_rows' = [api_rows EXCEPT ![api_frames[c].now] = @ + 1]
    /\ api_frames' = [api_frames EXCEPT ![c] = IdleApiCall]
    /\ UNCHANGED api_now
    /\ UNCHANGED notApi

\* time passes
ApiTick ==
    /\ api_now < MaxApiTime
    /\ api_now' = api_now + 1
    /\ UNCHANGED <<api_rows, api_frames>>
    /\ UNCHANGED notApi

InitApi ==
    /\ EmailIdle
    /\ RateInit
    /\ ConcInit
    /\ WsInit
    /\ TaskInit
    /\ MgrInit
    /\ ApiInit
    /\ KeyInit
    /\ ProcInit

NextApi ==
    \/ \E c \in ApiWorkers :
          \/ ApiCount(c)
          \/ ApiInsert(c)
    \/ ApiTick

SpecApi == InitApi /\ [][NextApi]_vars

(***************************************************************************)
(* TenantManager.validate_api_key (src/src/core/tenant_manager.py lines    *)
(* 73-94) over an organizations table in which an administrator may        *)
(* deactivate an organization at any time.                                 *)
(***************************************************************************)
\* lines 82-85: the active organization with that key, if the table has one
ActiveOrganization(table, api_key) ==
    IF api_key \in DOMAIN table /\ table[api_key].is_active
    THEN table[api_key].name
    ELSE "None"

\* lines 73-94: what the call returns at time t and the cache after it
validate_api_key(cache, table, api_key, t) ==
    IF cache[api_key].present /\ cache[api_key].expires > t
    THEN [organization |-> cache[api_key].organization, cache |-> cache]
    ELSE LET org == ActiveOrganization(table, api_key)
         IN  [organization |-> org,
              cache |-> IF org # "None"
                        THEN [cache EXCEPT ![api_key] =
                                 [present |-> TRUE, organization |-> org,
                                  expires |-> t + cache_minutes]]
                        ELSE cache]

\* one call of validate_api_key
ValidateApiKey(api_key) ==
    /\ LET r == validate_api_key(tenant_cache, organizations, api_key, key_now)
       IN  /\ tenant_cache' = r.cache
           /\ validated' = [api_key |-> api_key, returned |-> r.organization,
                            active_in_db |->
                                ActiveOrganization(organizations, api_key) # "None"]
    /\ UNCHANGED <<key_now, organizations>>
    /\ UNCHANGED notKey

\* an organization is deactivated in the database
Deactivate(api_key) ==
    /\ organizations[api_key].is_active
    /\ organizations' = [organizations EXCEPT ![api_key].is_active = FALSE]
    /\ UNCHANGED <<key_now, tenant_cache, validated>>
    /\ UNCHANGED notKey

\* time passes
KeyTick ==
    /\ key_now < MaxKeyTime
    /\ key_now' = key_now + 1
    /\ UNCHANGED <<organizations, tenant_cache, validated>>
    /\ UNCHANGED notKey

InitKey ==
    /\ EmailIdle
    /\ RateInit
    /\ ConcInit
    /\ WsInit
    /\ TaskInit
    /\ MgrInit
    /\ ApiInit
    /\ KeyInit
    /\ ProcInit

NextKey ==
    \/ \E api_key \in ApiKeys : ValidateApiKey(api_key)
    \/ \E api_key \in OrgKeys : Deactivate(api_key)
    \/ KeyTick

SpecKey == InitKey /\ [][NextKey]_vars

(***************************************************************************)
(* TaskProcessor.process_emails (src/src/core/task_processor.py lines      *)
(* 68-145).  The loop commits after each email and sleeps before the next, *)
(* so one turn of the loop is one step.                                    *)
(***************************************************************************)
\* email_agent.py lines 122-130: what _determine_action may answer
AgentActions == {"auto_respond", "escalate_to_human", "urgent_response"}

\* lines 70-74: a run begins and fetches the unread emails;
\* get_unread_emails (gmail_connector.py lines 59-81) answers with the
\* unread messages, or with none of them after an HttpError
StartRun ==
    /\ proc.pc = "idle"
    /\ runs < MaxRuns
    /\ runs' = runs + 1
    /\ \E emails \in {gmail_unread, {}} :
          proc' = [pc |-> IF emails = {} THEN "idle" ELSE "running",
                   emails |-> emails, failed |-> FALSE]
    /\ UNCHANGED <<gmail_unread, marked_as_read, email_tasks, agent_seen, passed_again>>
    /\ UNCHANGED notProc

\* the run after one turn of the loop: it goes on, it ends after the last
\* email (line 141), or an exception ended it (lines 143-145)
AfterTurn(e, raised) ==
    LET left == proc.emails \ {e}
    IN  IF raised THEN [pc |-> "idle", emails |-> {}, failed |-> TRUE]
        ELSE [pc |-> IF left = {} THEN "idle" ELSE "running",
              emails |-> left, failed |-> FALSE]

\* lines 76-139: one turn of the loop, for email e.  mark is the outcome of
\* gmail.mark_as_read (done, an HttpError it swallows, another exception),
\* commit_ok that of db.commit; notion.create_email_log swallows its
\* exceptions (notion_connector.py lines 229-231) and changes nothing here
ProcessOne(e) ==
    /\ proc.pc = "running"
    /\ e \in proc.emails
    /\ IF email_tasks[e].present /\ email_tasks[e].processed
       THEN /\ proc' = AfterTurn(e, FALSE)
            /\ UNCHANGED <<gmail_unread, marked_as_read, email_tasks, agent_seen,
                           passed_again>>
       ELSE \E action \in AgentActions, mark \in {"done", "http_error", "raised"},
               commit_ok \in BOOLEAN :
               LET marks == action = "auto_respond"
                   marked == marks /\ mark = "done"
                   mark_raised == marks /\ mark = "raised"
                   committed == ~mark_raised /\ commit_ok
               IN  /\ agent_seen' = agent_seen \cup {e}
                   /\ passed_again' = IF email_tasks[e].processed
                                      THEN passed_again \cup {e}
                                      ELSE passed_again
                   /\ gmail_unread' = IF marked THEN gmail_unread \ {e} ELSE gmail_unread
                   /\ marked_as_read' = IF marked THEN marked_as_read \cup {e}
                                        ELSE marked_as_read
                   /\ email_tasks' = IF committed
                                     THEN [email_tasks EXCEPT ![e] =
                                              [present |-> TRUE, processed |-> TRUE]]
                                     ELSE email_tasks
                   /\ proc' = AfterTurn(e, ~committed)
    /\ UNCHANGED runs
    /\ UNCHANGED notProc

InitProc ==
    /\ EmailIdle
    /\ RateInit
    /\ ConcInit
    /\ WsInit
    /\ TaskInit
    /\ MgrInit
    /\ ApiInit
    /\ KeyInit
    /\ ProcInit

NextProc ==
    \/ StartRun
    \/ \E e \in EmailIds : ProcessOne(e)

SpecProc == InitProc /\ [][NextProc]_vars

(***************************************************************************)
(* Properties.  Each is stated over the dictionaries in results, the       *)
(* values the calls returned, and over signals recomputed from msg.        *)
(***************************************************************************)
Calls == 1..Len(results)
ContentLower == StrLower(msg.content)
SubjectLower == StrLower(msg.subject)
Counts == SignalCounts(ContentLower)
BasePriority == IntentCascade(Counts, ContentLower, SubjectLower).priority
Rank(priority) == CASE priority = "normal" -> 0 [] priority = "high" -> 1 [] priority = "urgent" -> 2
MinuteOf(r) == r.processed_at[1]

\* C1 as stated: two calls on the same message return identical intent,
\* priority, sentiment, requires_human, key_points and suggested_response,
\* whatever the times of the calls.
C1_IdenticalAtAnyTime ==
    \A i, j \in Calls :
        /\ results[i].intent = results[j].intent
        /\ results[i].priority = results[j].priority
        /\ results[i].sentiment = results[j].sentiment
        /\ results[i].requires_human = results[j].requires_human
        /\ results[i].key_points = results[j].key_points
        /\ results[i].suggested_response = results[j].suggested_response

\* C1 amended: two calls on the same message return identical intent,
\* priority, sentiment, requires_human and key_points whatever their times;
\* suggested_response is identical too unless the intent is complaint and the
\* priority urgent, where it carries a ticket of the minute of the call and is
\* identical exactly when both calls fall in the same minute.
C1_IdenticalButTicket ==
    \A i, j \in Calls :
        /\ results[i].intent = results[j].intent
        /\ results[i].priority = results[j].priority
        /\ results[i].sentiment = results[j].sentiment
        /\ results[i].requires_human = results[j].requires_human
        /\ results[i].key_points = results[j].key_points
        /\ IF results[i].intent = "complaint" /\ results[i].priority = "urgent"
           THEN (results[i].suggested_response = results[j].suggested_response)
                    <=> (MinuteOf(results[i]) = MinuteOf(results[j]))
           ELSE results[i].suggested_response = results[j].suggested_response

\* two calls at different times of one minute, on an urgent complaint
C1_Witness ==
    /\ Len(results) >= 2
    /\ results[1].intent = "complaint" /\ results[1].priority = "urgent"
    /\ results[1].processed_at # results[2].processed_at
    /\ MinuteOf(results[1]) = MinuteOf(results[2])
    /\ results[1].suggested_response = results[2].suggested_response

\* C2: the returned priority is never lower, in the order normal < high <
\* urgent, than the priority the intent cascade chose.
C2_PriorityNeverLowered ==
    \A i \in Calls : Rank(results[i].priority) >= Rank(BasePriority)

\* a cascade priority of urgent, a high-value indicator present, urgent returned
C2_Witness ==
    /\ Len(results) >= 1
    /\ BasePriority = "urgent"
    /\ AnyIn(high_value_indicators, ContentLower)
    /\ results[1].priority = "urgent"

\* C3 as stated: a content with at least one positive and at least one
\* negative sentiment keyword is classified neutral.
C3_MixedIsNeutral ==
    \A i \in Calls :
        (CountIn(positive_indicators, ContentLower) >= 1
            /\ CountIn(negative_indicators, ContentLower) >= 1)
        => results[i].sentiment = "neutral"

\* C4: a returned priority of high or urgent, or a returned intent of
\* complaint, comes with requires_human = true.
C4_EscalationImplication ==
    \A i \in Calls :
        (results[i].priority \in {"high", "urgent"} \/ results[i].intent = "complaint")
        => results[i].requires_human

\* a high-priority message that nothing but its priority sends to a human
C4_Witness ==
    /\ Len(results) >= 1
    /\ results[1].priority = "high"
    /\ results[1].intent # "complaint"
    /\ ~Contains("$", msg.content)
    /\ ~Contains("legal", ContentLower)
    /\ Counts.sales < 5
    /\ results[1].requires_human

LegalToken == Contains("legal", ContentLower) \/ Contains("lawsuit", ContentLower)
LargeAmount == Contains("$", msg.content) /\ AnyIn(<<"000", "million", "M">>, msg.content)

\* C5 as stated: requires_human is true if and only if the final priority is
\* high or urgent, or the intent is complaint, or the content has a legal
\* token, or a very large monetary amount is mentioned.
C5_FourConditions ==
    \A i \in Calls :
        results[i].requires_human <=>
            \/ results[i].priority \in {"high", "urgent"}
            \/ results[i].intent = "complaint"
            \/ LegalToken
            \/ LargeAmount

\* C5 amended: requires_human is true if and only if the final priority is
\* high or urgent, or the intent is complaint, or the content has a legal
\* token, or a very large monetary amount is mentioned, or the content has at
\* least 5 of the sales keywords.
C5_FiveConditions ==
    \A i \in Calls :
        results[i].requires_human <=>
            \/ results[i].priority \in {"high", "urgent"}
            \/ results[i].intent = "complaint"
            \/ LegalToken
            \/ LargeAmount
            \/ CountIn(sales_keywords, ContentLower) >= 5

\* a normal-priority general inquiry sent to a human by its sales keywords alone
C5_Witness ==
    /\ Len(results) >= 1
    /\ results[1].intent = "general_inquiry"
    /\ results[1].priority = "normal"
    /\ ~LegalToken /\ ~LargeAmount
    /\ CountIn(sales_keywords, ContentLower) >= 5
    /\ results[1].requires_human

\* C6: key_points has at most 5 elements.
C6_AtMostFiveKeyPoints ==
    \A i \in Calls : Len(results[i].key_points) <= 5

\* more than 5 scored sentences, 5 returned
C6_Witness ==
    /\ Len(results) >= 1
    /\ Len(ImportantSentences(ReSplitSentences(msg.content))) > 5
    /\ Len(results[1].key_points) = 5

\* C7 as stated: whenever the content has a sentence (text between '.', '!'
\* or '?' delimiters, trimmed) of at least 10 characters, key_points is not
\* empty.
C7_KeyPointForLongSentence ==
    \A i \in Calls :
        (\E k \in 1..Len(ReSplitSentences(msg.content)) :
            Len(Strip(ReSplitSentences(msg.content)[k])) >= 10)
        => results[i].key_points # <<>>

\* the rules of the cascade in the claimed order, with what each assigns
CascadeRules(c, content_lower, subject_lower) ==
    <<[holds |-> CrisisRule(c, content_lower, subject_lower),
       intent |-> "complaint", priorities |-> {"urgent"}],
      [holds |-> StrongComplaintRule(c, content_lower, subject_lower),
       intent |-> "complaint", priorities |-> {"high"}],
      [holds |-> SalesRule(c, content_lower, subject_lower),
       intent |-> "sales_opportunity", priorities |-> {"high"}],
      [holds |-> UrgentSupportRule(c, content_lower, subject_lower),
       intent |-> "support_request", priorities |-> {"urgent"}],
      [holds |-> SupportRule(c, content_lower, subject_lower),
       intent |-> "support_request", priorities |-> {"normal", "high"}],
      [holds |-> PricingRule(c, content_lower, subject_lower),
       intent |-> "pricing_inquiry", priorities |-> {"normal"}],
      [holds |-> TRUE,
       intent |-> "general_inquiry", priorities |-> {"normal"}]>>

\* the earliest rule of the sequence that holds
Earliest(rules) == CHOOSE k \in 1..Len(rules) :
    rules[k].holds /\ \A j \in 1..(k - 1) : ~rules[j].holds

\* C8: the returned intent and the base priority are those of the earliest
\* satisfied rule in the order crisis/complaint, strong complaint, sales
\* opportunity, urgent support, support, pricing, default.
C8_FirstMatchWins ==
    Calls # {} =>
        LET content_lower == ContentLower
            subject_lower == SubjectLower
            c == SignalCounts(content_lower)
            rules == CascadeRules(c, content_lower, subject_lower)
            first == rules[Earliest(rules)]
            base == IntentCascade(c, content_lower, subject_lower)
        IN  /\ \A i \in Calls : results[i].intent = first.intent
            /\ base.priority \in first.priorities

\* the strong-complaint and the sales rule both satisfied: complaint returned
C8_Witness ==
    /\ Len(results) >= 1
    /\ ~CrisisRule(Counts, ContentLower, SubjectLower)
    /\ StrongComplaintRule(Counts, ContentLower, SubjectLower)
    /\ SalesRule(Counts, ContentLower, SubjectLower)
    /\ results[1].intent = "complaint"

\* C9 as stated: an urgency token (urgent, asap, immediately, critical,
\* emergency, now, today, deadline) or at least 3 exclamation marks in the
\* message give priority urgent.
C9_SpecTokensUrgent ==
    \A i \in Calls :
        (\/ AnyIn(<<"urgent", "asap", "immediately", "critical", "emergency",
                    "now", "today", "deadline">>, ContentLower)
         \/ CountChar("!", msg.content) >= 3)
        => results[i].priority = "urgent"

\* C9 amended: if the content contains urgent, asap, immediately, critical,
\* emergency, right now, immediate or time sensitive (in any letter case), or
\* three consecutive exclamation marks, the returned priority is urgent,
\* whatever intent the cascade selected.
C9_CodeTokensUrgent ==
    \A i \in Calls :
        AnyIn(<<"urgent", "asap", "immediately", "critical", "emergency",
                "right now", "immediate", "time sensitive", "!!!">>, ContentLower)
        => results[i].priority = "urgent"

\* an urgency token in a message whose cascade priority is high
C9_Witness ==
    /\ Len(results) >= 1
    /\ BasePriority = "high"
    /\ AnyIn(<<"urgent", "asap", "immediately", "critical", "emergency",
               "right now", "immediate", "time sensitive", "!!!">>, ContentLower)
    /\ results[1].priority = "urgent"

\* the template the claim expects for an (intent, priority) pair
ClaimedTemplate(intent, priority) ==
    CASE intent = "complaint" /\ priority = "urgent" -> "emergency_escalation"
      [] intent = "sales_opportunity" /\ priority = "high" -> "enterprise_sales"
      [] intent = "pricing_inquiry" -> "pricing_response"
      [] intent = "support_request" -> "support_response"
      [] intent = "complaint" /\ priority # "urgent" -> "complaint_response"
      [] OTHER -> "general_response"

\* C10 as stated: the emergency template for (complaint, urgent), the
\* enterprise template for (sales_opportunity, high), and otherwise the
\* generic template of the intent; the general template only for
\* general_inquiry.
C10_TemplateOfIntent ==
    \A i \in Calls :
        /\ results[i].suggested_response.template
              = ClaimedTemplate(results[i].intent, results[i].priority)
        /\ results[i].suggested_response.template = "general_response"
              => results[i].intent = "general_inquiry"

\* the five literal scenarios: subject of the message, then the expected
\* intent, priority, sentiment and requires_human
C11_Scenarios ==
    {<<"URGENT!!! COMPLETE SYSTEM FAILURE", "complaint", "urgent", "negative", TRUE>>,
     <<"Enterprise deployment for 50,000 users", "sales_opportunity", "high", "neutral", TRUE>>,
     <<"API Authentication Error", "support_request", "normal", "neutral", FALSE>>,
     <<"Pricing information", "pricing_inquiry", "normal", "neutral", FALSE>>,
     <<"Great product!", "general_inquiry", "normal", "positive", FALSE>>}

\* C11: for each of the five literal end-to-end scenarios the engine returns
\* exactly the expected intent, priority, sentiment and requires_human.
C11_LiteralScenarios ==
    \A i \in Calls : \A e \in C11_Scenarios :
        (msg \in SuiteMessages /\ msg.subject = e[1]) =>
            /\ results[i].intent = e[2]
            /\ results[i].priority = e[3]
            /\ results[i].sentiment = e[4]
            /\ results[i].requires_human = e[5]

\* the API authentication scenario, classified
C11_Witness ==
    /\ Len(results) >= 1
    /\ msg \in SuiteMessages /\ msg.subject = "API Authentication Error"
    /\ results[1].intent = "support_request"
    /\ results[1].sentiment = "neutral"

\* C12 as stated: a message that reaches the urgent-support rule (subject
\* contains 'urgent' or 'broken', content has a support keyword, no earlier
\* rule satisfied) is classified support_request, urgent, negative and
\* requires_human, also without a negative-sentiment keyword.
C12_UrgentSupportNegative ==
    \A i \in Calls :
        (/\ ~CrisisRule(Counts, ContentLower, SubjectLower)
         /\ ~StrongComplaintRule(Counts, ContentLower, SubjectLower)
         /\ ~SalesRule(Counts, ContentLower, SubjectLower)
         /\ UrgentSupportRule(Counts, ContentLower, SubjectLower))
        => /\ results[i].intent = "support_request"
           /\ results[i].priority = "urgent"
           /\ results[i].sentiment = "negative"
           /\ results[i].requires_human

\* a result with the stamp and the ticket identifier erased
Timeless(r) ==
    [r EXCEPT !.processed_at = <<>>, !.suggested_response.ticket = <<>>]

\* C16: two runs on the same message agree on intent, priority, sentiment and
\* requires_human whatever their times, and differ at most in the ticket
\* identifier of the response text and in processed_at.
C16_ClockOnlyInTicketAndStamp ==
    \A i, j \in Calls :
        /\ <<results[i].intent, results[i].priority,
             results[i].sentiment, results[i].requires_human>>
           = <<results[j].intent, results[j].priority,
               results[j].sentiment, results[j].requires_human>>
        /\ Timeless(results[i]) = Timeless(results[j])

\* two runs in different minutes whose tickets differ
C16_Witness ==
    /\ Len(results) >= 2
    /\ MinuteOf(results[1]) # MinuteOf(results[2])
    /\ results[1].suggested_response.ticket # results[2].suggested_response.ticket
    /\ results[1].priority = results[2].priority

\* C18: with an empty content, whatever the subject and the sender, the
\* engine returns general_inquiry, normal, neutral, requires_human false, no
\* key point and the general response template.
C18_EmptyContent ==
    \A i \in Calls :
        msg.content = "" =>
            /\ results[i].intent = "general_inquiry"
            /\ results[i].priority = "normal"
            /\ results[i].sentiment = "neutral"
            /\ results[i].requires_human = FALSE
            /\ results[i].key_points = <<>>
            /\ results[i].suggested_response.template = "general_response"

\* an empty content under a subject flagged urgent
C18_Witness ==
    /\ Len(results) >= 1
    /\ msg.content = ""
    /\ Contains("urgent", SubjectLower)
    /\ results[1].intent = "general_inquiry"

OllamaCalls == 1..Len(ollama_results)

\* the complaint words of the first branch of _process_with_rules
OllamaComplaintWord ==
    AnyIn(<<"lawsuit", "legal action", "sue", "unacceptable", "lost revenue", "million">>,
          ContentLower)

\* C13 as stated: a subject containing 'technical evaluation', a content
\* mentioning kubernetes, sla or compliance, and no complaint keyword give
\* sales_opportunity, high and requires_human, also when the content asks
\* about pricing.
C13_TechnicalEvaluationIsSales ==
    \A i \in OllamaCalls :
        (/\ Contains("technical evaluation", SubjectLower)
         /\ AnyIn(<<"kubernetes", "sla", "compliance">>, ContentLower)
         /\ ~OllamaComplaintWord)
        => /\ ollama_results[i].intent = "sales_opportunity"
           /\ ollama_results[i].priority = "high"
           /\ ollama_results[i].requires_human

\* C20 as stated: a content with one of love, great, thank and one of issue,
\* problem, frustrating is returned with sentiment neutral.
C20_OllamaMixedIsNeutral ==
    \A i \in OllamaCalls :
        (/\ AnyIn(<<"love", "great", "thank">>, ContentLower)
         /\ AnyIn(<<"issue", "problem", "frustrating">>, ContentLower))
        => ollama_results[i].sentiment = "neutral"

LLMCalls == 1..Len(llm_results)

\* what the rule-based path of the same processor returns for the same message
RuleBasedResult(e) ==
    IF e.processor = "ollama" THEN ollama_process_with_rules(msg, e.at)
    ELSE process_email_with_rules(msg, e.at)

\* a dictionary holding the four classification fields with values of their domains
CompleteClassification(r) ==
    /\ {"intent", "priority", "sentiment", "requires_human", "key_points",
        "suggested_response"} \subseteq DOMAIN r
    /\ r.intent \in {"complaint", "sales_opportunity", "support_request",
                     "pricing_inquiry", "general_inquiry"}
    /\ r.priority \in {"low", "normal", "high", "urgent"}
    /\ r.sentiment \in {"negative", "neutral", "positive"}
    /\ r.requires_human \in BOOLEAN

\* the model call gave nothing to parse an intent from
NoValidIntent(e) ==
    \/ ~e.enabled
    \/ e.llm.kind \in {"error", "not_json", "json_list"}
    \/ e.processor = "ollama"
       /\ extract_value(StrLower(e.llm.text), "intent:",
                        <<"pricing_inquiry", "support_request", "complaint",
                          "sales_opportunity", "general_inquiry">>) = None
    \/ e.processor = "openai"
       /\ ("intent" \notin e.llm.keys \/ e.llm.intent = "banana")

\* the reply carries every field of the format the prompt asks for
WellFormedReply(e) ==
    /\ e.enabled
    /\ ~NoValidIntent(e)
    /\ \/ e.processor = "openai" /\ e.llm.keys = DOMAIN StructuredReply
       \/ e.processor = "ollama"
          /\ LET text == StrLower(e.llm.text)
             IN  /\ extract_value(text, "priority:", <<"urgent", "high", "normal">>) # None
                 /\ extract_value(text, "sentiment:", <<"positive", "neutral", "negative">>) # None
                 /\ Contains("human:", text)

\* C15 as stated: every call returns a complete classification; without a
\* model, on an error, or on a reply without a valid intent it returns what
\* the rule-based path returns; the values of the model are used only when
\* the reply is a well-formed structured result.
C15_FallbackUnlessWellFormed ==
    \A i \in LLMCalls :
        LET e == llm_results[i]
        IN  /\ CompleteClassification(e.result)
            /\ NoValidIntent(e) => e.result = RuleBasedResult(e)
            /\ e.result # RuleBasedResult(e) => WellFormedReply(e)

\* the calls accepted within the hour that ends now: each accepted call left
\* one usage row under its own action name
AcceptedInHour == CountSince(usage, "email_processing", rate_now - 1)

\* C14 as stated: once 100 calls have been accepted within one hour, a
\* further call in that hour is answered 429 with a 'rate limit' message and
\* enqueues no task.
C14_RefusedBeyondLimit ==
    [][(requests' # requests /\ AcceptedInHour >= emails_per_hour)
       => /\ last_response'.status_code = 429
          /\ Contains("rate limit", StrLower(last_response'.error))
          /\ tasks_enqueued' = tasks_enqueued]_vars

\* the callers whose call has returned
Returned == {c \in Callers : frames[c].pc \in {"returned", "done"}}

\* C17: whatever the interleaving, every call returns what the engine
\* returns for its message when run alone, and the only write to the shared
\* list is the endpoint's append of a finished result.
C17_CallsDoNotInteract ==
    /\ \A c \in Returned :
          frames[c].result = process_email_with_rules(frames[c].email, now)
    /\ Len(processed_emails) = Cardinality({c \in Callers : frames[c].pc = "done"})
    /\ \A i \in 1..Len(processed_emails) :
          \E c \in Callers : frames[c].pc = "done" /\ processed_emails[i] = frames[c].result

\* two calls that overlapped, on messages of different intent, have both been stored
C17_Witness ==
    \E c, d \in Callers :
        /\ frames[c].pc = "done" /\ frames[d].pc = "done"
        /\ frames[c].overlapped /\ frames[d].overlapped
        /\ frames[c].result.priority = "urgent"
        /\ frames[d].result.priority = "normal"

\* how often message type m occurs in a sequence
Occurrences(seq, m) == Cardinality({i \in 1..Len(seq) : seq[i] = m})

\* the first message a client gets is the welcome message
WelcomeFirst == \A w \in Sockets : sock[w].sent # <<>> => Head(sock[w].sent) = "connection"

\* one pong for each ping the handler has taken from a client that is there
OnePongPerPing ==
    \A w \in Sockets :
        LET taken == sock[w].pings_sent - Occurrences(sock[w].inbox, "ping")
            pongs == Occurrences(sock[w].sent, "pong")
        IN  /\ pongs <= taken
            /\ sock[w].client_open => pongs = taken

\* the server does not end a connection whose client is there and has a
\* ping waiting for its answer
NoPingDropped ==
    \A w \in Sockets :
        (sock[w].state = "closed" /\ sock[w].client_open)
        => Occurrences(sock[w].inbox, "ping") = 0

\* C19 as stated: the first message sent to a client is the connection
\* message, and every ping a client sends while its connection is open is
\* answered by one pong on the same websocket.
C19_WelcomeThenPongs == WelcomeFirst /\ OnePongPerPing /\ NoPingDropped

\* C21 as stated: the priority _process_with_rules returns is never lower,
\* in the order normal < high < urgent, than the priority of the intent
\* branch that matched.
C21_OllamaNeverDeescalates ==
    \A i \in OllamaCalls :
        Rank(ollama_results[i].priority)
            >= Rank(OllamaBranch(ContentLower, SubjectLower).priority)

\* C22: when some sentence is a candidate, key_points holds the candidates
\* in descending score, candidates of equal score in their order in the
\* content, cut after the fifth.
C22_SortedStableTopFive ==
    \A i \in Calls :
        LET cands == ImportantSentences(ReSplitSentences(msg.content))
            n == Len(cands)
            Before(j, k) == \/ cands[j].score > cands[k].score
                            \/ cands[j].score = cands[k].score /\ j < k
            Place(k) == 1 + Cardinality({j \in 1..n : Before(j, k)})
            kp == results[i].key_points
        IN  n > 0 => /\ Len(kp) = IF n < 5 THEN n ELSE 5
                     /\ \A k \in 1..n : Place(k) <= 5 => kp[Place(k)] = cands[k].sentence

\* more than five candidates, two of them of equal score, and the
\* highest-scoring one not the first in the content
C22_Witness ==
    /\ Len(results) >= 1
    /\ LET cands == ImportantSentences(ReSplitSentences(msg.content))
       IN  /\ Len(cands) > 5
           /\ \E j, k \in 1..Len(cands) : j < k /\ cands[j].score = cands[k].score
           /\ \E j, k \in 1..Len(cands) : j < k /\ cands[j].score < cands[k].score
           /\ results[1].key_points[1] = cands[Len(cands)].sentence

\* C23 as stated: when no sentence scores above 0, key_points is the first 3
\* of the sentences longer than 10 characters, in their order in the content.
C23_FallbackFirstThreeLong ==
    \A i \in Calls :
        LET sentences == ReSplitSentences(msg.content)
            stripped == [k \in 1..Len(sentences) |-> Strip(sentences[k])]
            long == SelectSeq(stripped, LAMBDA t : Len(t) > 10)
        IN  (\A k \in 1..Len(stripped) : ImportanceScore(stripped[k]) = 0)
            => results[i].key_points = Take(long, 3)

C25_SuccessStoresOnceNoRetry ==
    \A t \in TaskIds :
        LET task == celery_tasks[t]
            worked == task.agent = "analysis" /\ task.db_ok /\ task.hook_ok
        IN  /\ worked => /\ task.status = "success"
                         /\ email_task_rows[t] = 1
                         /\ webhooks[t] = 1
            /\ task.status = "retry" => ~worked

\* the websockets that have metadata in connection_info
Registered == {w \in Sockets : connection_info[w].present}

\* C26: after any sequence of connect, disconnect, failed send and
\* health-check eviction steps the registries agree: the keys of
\* connection_info are the union of the sets of active_connections, each
\* websocket is in the set of exactly the organization its metadata names,
\* no organization maps to an empty set, the gauge counts the registered
\* websockets, and a second disconnect of a websocket changes nothing.
C26_RegistriesConsistent ==
    /\ Registered = UNION {active_connections[o].members : o \in DOMAIN active_connections}
    /\ \A w \in Registered : \A o \in DOMAIN active_connections :
           (w \in active_connections[o].members) <=> (o = connection_info[w].org_id)
    /\ \A o \in DOMAIN active_connections :
           active_connections[o].present <=> (active_connections[o].members # {})
    /\ gauge = Cardinality(Registered)
    /\ \A w \in Sockets :
           disconnect(disconnect(Registries, w), w) = disconnect(Registries, w)

\* the health check has evicted a websocket whose client is still there,
\* while another websocket stays registered
C26_Witness ==
    \E w, v \in Sockets :
        /\ sock[w].state = "open" /\ sock[w].client_open
        /\ ~connection_info[w].present
        /\ connection_info[v].present
        /\ gauge = 1

\* C27: broadcast_to_org completes without raising and has attempted a
\* send to every websocket that stayed registered for the organization
\* throughout the broadcast, whatever connects or disconnects while it is
\* suspended at a send.
C27_BroadcastCompletes ==
    /\ bcast.pc # "raised"
    /\ bcast.pc = "done" /\ bcast.snapshot # {} =>
           (bcast.snapshot \cap active_connections[bcast.org_id].members)
               \subseteq bcast.visited

\* C28: check_rate_limit with action 'api_call' never admits more than
\* api_calls_per_minute calls of the organization within one minute, however
\* the count queries and the insertions of concurrent calls interleave: no
\* more than api_calls_per_minute admitted calls carry the same timestamp.
C28_AtMostLimitPerMinute ==
    \A t \in 0..MaxApiTime : api_rows[t] <= api_calls_per_minute

\* C29: validate_api_key returns an Organization only if, at the time of the
\* call, the database holds an active organization with that API key; after
\* a deactivation every later call with the key returns None.
C29_OnlyActiveOrganizations ==
    validated.returned # "None" => validated.active_in_db

\* C30: when a process_emails run has ended, every email that was marked as
\* read in Gmail has a committed EmailTask with processed = true, also when
\* Notion logging or the database commit failed for it; and an email whose
\* EmailTask is committed as processed is never passed to the agent again.
C30_ReadEmailsAreCommitted ==
    /\ proc.pc = "idle" =>
           \A e \in marked_as_read :
               email_tasks[e].present /\ email_tasks[e].processed
    /\ passed_again = {}

\* the second half of C30 alone: a processed email is skipped by later runs
C30_ProcessedNeverPassedAgain ==
    passed_again = {}

\* a later run has met an email whose row was committed as processed
C30_SkipWitness ==
    /\ runs = MaxRuns
    /\ \E e \in EmailIds :
          /\ email_tasks[e].processed
          /\ e \in gmail_unread
          /\ proc.pc = "idle" /\ ~proc.failed

====
